---- MODULE Spec2Model ----
(***************************************************************************)
(* The bulk CSV import of the product dashboard                            *)
(* (src/ProductManager.py, ProductDashboard.import_csv and its worker).    *)
(*                                                                         *)
(* The products table is a sequence of records in insertion (id) order.    *)
(* `db` is the committed table, `work` the table as the worker's           *)
(* connection sees it inside its transaction.  A file is the sequence of   *)
(* its data rows as csv.reader yields them: each row a sequence of raw     *)
(* cells, each cell a sequence of characters.  The store is part of the    *)
(* environment: any statement may raise sqlite3.OperationalError or some   *)
(* other exception, after any prefix of an executemany / per-record loop   *)
(* has been applied.                                                       *)
(*                                                                         *)
(* Spec is the import; SpecReimport adds the import of the same file       *)
(* again.  The helpers of the import that are functions of their input     *)
(* have specifications of their own, over every input up to a bound:       *)
(* SpecHeader (_normalize_header, _dedupe_headers, _build_header_map),     *)
(* SpecEncoding (_detect_encoding) and SpecCoerce (_to_float, _to_int and  *)
(* the way of their results into the store).                               *)
(***************************************************************************)
EXTENDS Integers, Sequences, FiniteSets, TLC

\* BATCH_SIZE of the worker (500 in the source), scaled down.
BATCH_SIZE == 2
\* Longest file, in data rows.
MaxRows == 3
\* Transient store faults injected per run.
MaxFaults == 1
\* Depth at which a further recursive flush_batch() call raises
\* RecursionError (sys.getrecursionlimit(), scaled down).
RecursionLimit == 1

(***************************************************************************)
(* Cells and their cleaning                                                *)
(***************************************************************************)

\* Characters: NUL is "\x00", SP a blank, CR and LF the line ends.
Whitespace == {"SP", "CR", "LF"}

RECURSIVE NormalizeNewlines(_)
\* .replace("\r\n", "\n").replace("\r", "\n")
NormalizeNewlines(s) ==
  IF s = <<>> THEN <<>>
  ELSE IF Head(s) = "CR"
       THEN IF Len(s) >= 2 /\ s[2] = "LF"
            THEN <<"LF">> \o NormalizeNewlines(Tail(Tail(s)))
            ELSE <<"LF">> \o NormalizeNewlines(Tail(s))
       ELSE <<Head(s)>> \o NormalizeNewlines(Tail(s))

RECURSIVE LStrip(_)
LStrip(s) ==
  IF s # <<>> /\ Head(s) \in Whitespace THEN LStrip(Tail(s)) ELSE s

RECURSIVE RStrip(_)
RStrip(s) ==
  IF s # <<>> /\ s[Len(s)] \in Whitespace
  THEN RStrip(SubSeq(s, 1, Len(s) - 1)) ELSE s

\* str.strip()
Strip(s) == RStrip(LStrip(s))

IsNotNul(c) == c # "NUL"

\* _sanitize_cell: drop NULs, normalise line ends, strip.
SanitizeCell(s) == Strip(NormalizeNewlines(SelectSeq(s, IsNotNul)))

\* headers_norm of the modelled files: the header row "sku,name".
HeadersNorm == <<"sku", "name">>

\* target_map for that header (zero-based column indexes, as in the code).
TargetMap == [sku |-> 0, name |-> 1]

\* vals = [sanitize(row[i]) if i < len(row) else "" for i in range(len(headers_norm))]
Vals(row) ==
  [i \in 1..Len(HeadersNorm) |->
     IF i <= Len(row) THEN SanitizeCell(row[i]) ELSE <<>>]

\* get_by_target(t) on the cleaned cells.
GetByTarget(vals, t) ==
  IF t \in DOMAIN TargetMap /\ TargetMap[t] < Len(vals)
  THEN vals[TargetMap[t] + 1] ELSE <<>>

\* The row acceptance test: `if not sku or not name` is the rejection.
RowAccepted(row) ==
  /\ GetByTarget(Vals(row), "sku") # <<>>
  /\ GetByTarget(Vals(row), "name") # <<>>

\* The tuple appended to the batch (the non-key columns are represented by name).
RowTuple(row) ==
  [sku |-> GetByTarget(Vals(row), "sku"), name |-> GetByTarget(Vals(row), "name")]

(***************************************************************************)
(* Input rows                                                              *)
(***************************************************************************)

\* The rows csv.reader may yield.
RowChoices ==
  { << <<"A">>, <<"n">> >>,                    \* sku A, name n
    << <<"SP", "A">>, <<"m", "CR", "LF">> >>,  \* cleans to sku A, name m
    << <<"a">>, <<"n">> >>,                    \* a sku differing in case only
    << <<"NUL", "SP">>, <<"n">> >>,            \* sku empty after cleaning
    << <<"A">> >> }                            \* short row: no name cell

(***************************************************************************)
(* The products table                                                      *)
(***************************************************************************)

HasSku(t, sku) == \E i \in 1..Len(t) : t[i].sku = sku

\* UPDATE products SET <non-key columns> WHERE sku=?
UpdateWhere(t, rec) ==
  [i \in 1..Len(t) |-> IF t[i].sku = rec.sku THEN rec ELSE t[i]]

\* A plain INSERT: the ON CONFLICT clause left out.
UpsertAlwaysInserts(t, rec) == Append(t, rec)

\* upsert_sql for one tuple: INSERT ... ON CONFLICT(sku) DO UPDATE SET ...
Upsert(t, rec) ==
  IF HasSku(t, rec.sku) THEN UpdateWhere(t, rec) ELSE Append(t, rec)

\* The fallback without its lookup: every tuple inserted.
PerRecordAlwaysInserts(t, rec) == Append(t, rec)

\* The fallback for one tuple: SELECT id WHERE sku=?; UPDATE if found, else INSERT.
PerRecord(t, rec) ==
  IF HasSku(t, rec.sku) THEN UpdateWhere(t, rec) ELSE Append(t, rec)

RECURSIVE ExecuteManyLastFirst(_, _)
\* executemany over the batch from its last tuple to its first.
ExecuteManyLastFirst(t, recs) ==
  IF recs = <<>> THEN t
  ELSE ExecuteManyLastFirst(Upsert(t, recs[Len(recs)]), SubSeq(recs, 1, Len(recs) - 1))

RECURSIVE ExecuteMany(_, _)
\* cur.executemany(upsert_sql, recs): the statement once per tuple, in order.
ExecuteMany(t, recs) ==
  IF recs = <<>> THEN t ELSE ExecuteMany(Upsert(t, Head(recs)), Tail(recs))

RECURSIVE PerRecordLoop(_, _)
\* for tpl in batch: select / update / insert
PerRecordLoop(t, recs) ==
  IF recs = <<>> THEN t ELSE PerRecordLoop(PerRecord(t, Head(recs)), Tail(recs))

(***************************************************************************)
(* State                                                                   *)
(***************************************************************************)

VARIABLES
  pc,               \* where the worker is: Idle, Opening, Return, Mapping,
                    \* Streaming, Flush, RowExcept, Commit, Except, Finally,
                    \* Done, Failed
  file,             \* the data rows of the file, as far as they are known:
                    \* the rows read so far, or all of them on a re-import
  db,               \* the committed products table
  work,             \* the table as seen inside the worker's transaction
  upsertSupported,  \* whether the store accepts the ON CONFLICT form
  line_no, batch, skipped, error_lines, have_upsert,   \* the worker's locals
  site,             \* the call site of the flush in progress: "row" or "final"
  depth,            \* recursion depth of flush_batch
  faults,           \* transient store faults so far in this run
  failed,           \* the outer except clause has run
  errBound,         \* the worker is inside an except clause: its `e` is bound
  posted,           \* callbacks handed to the UI thread with root.after, in order
  uiLog,            \* what the UI thread did with the callbacks of this run
  all_data,         \* the UI's cached copy of the table (_load_data)
  \* history of the current run, for stating the properties
  dbAtStart,        \* db when the run started
  rerun,            \* this run imports the file of the previous, successful run
  batchLines,       \* the line numbers of the tuples in batch, in order
  writtenVia,       \* line number -> statement form that last wrote its tuple
  flushed,          \* the batches (sets of line numbers) handed to the store
  rejectedLines,    \* lines in the batch whose atomic upsert was rejected
  atomicAfterReject,\* an atomic upsert was attempted after a rejection
  escaped,          \* an exception left flush_batch, or the commit raised
  excLines,         \* lines at which the per-row except clause ran
  begins, commits,  \* BEGINs and commits of the import transaction
  phases,           \* the phases the run has entered, in order
  failure,          \* what stopped the run before its first row, if anything
  \* import_csv on the UI thread
  path,             \* the answer of the last file dialog of import_csv
  \* the pipeline's pure functions, applied to inputs of their own
  raw_headers, headers_norm, target_map, hstep,
  readable,         \* whether the file at the path can be opened for reading
  content,          \* the bytes of the file
  detected,         \* what _detect_encoding answered, or that it raised
  estep,
  cell,             \* the text of the price and of the stock cell of a row
  price, stock,     \* what _to_float and _to_int made of it
  cstep,            \* how far that row got
  \* import_csv called at any time
  threads,          \* the stage of every worker thread started, in start order
  \* one call of flush_batch
  flushing,         \* the tuples in the batch when flush_batch was called
  tries,            \* store attempts of the call so far, per statement form
  locked,           \* the store raises OperationalError on every statement
  glitch,           \* a transient OperationalError is still to come
  stored,           \* the products table with its ids, as the call sees it
  storedBefore,     \* that table when flush_batch was called
  \* the supplier dashboard (src/supplier_dash.py)
  page, page_size, sort_by, sort_dir, search_text,   \* SupplierApp's state
  loading,          \* self.loading
  total_pages,      \* self.total_pages (0: the attribute is not set yet)
  load_workers,     \* the arguments of the _load_data_worker threads in flight
  data_queue,       \* self.data_queue
  tree,             \* the parameters of the result shown in the table
  page_info,        \* the page of the page counter (page_info_var)
  requested,        \* the parameters when a refresh was last requested
  delivered         \* what _poll_queues last took off the queue: data or error

\* The header functions' variables.
header == << raw_headers, headers_norm, target_map, hstep >>

\* The encoding detector's variables.
encoding == << readable, content, detected, estep >>

\* The numeric coercion's variables.
coercion == << cell, price, stock, cstep >>

pure == << header, encoding, coercion >>

\* The variables of a call of flush_batch on its own.
flushcall == << flushing, tries, locked, glitch, stored, storedBefore >>

\* The supplier dashboard's variables.
dashboard == << page, page_size, sort_by, sort_dir, search_text, loading,
                total_pages, load_workers, data_queue, tree, page_info,
                requested, delivered >>

\* What the import worker and its helper functions do not touch.
extra == << threads, flushcall, dashboard >>

\* What the import worker does not touch.
aside == << pure, extra >>

\* The variables of the import.
worker == << pc, file, db, work, upsertSupported, line_no, batch, skipped,
             error_lines, have_upsert, site, depth, faults, failed, errBound,
             posted, uiLog, all_data,
             dbAtStart, rerun, batchLines, writtenVia, flushed, rejectedLines,
             atomicAfterReject, escaped, excLines, begins, commits,
             phases, failure, path >>

vars == << worker, pure, extra >>

store == << db, upsertSupported >>
locals == << line_no, batch, skipped, error_lines, have_upsert, site, depth >>
ui == << posted, uiLog, all_data >>
history == << dbAtStart, rerun, batchLines, writtenVia, flushed, rejectedLines,
              atomicAfterReject, escaped, excLines, begins, commits >>
progress == << phases, failure >>

NoLines == [l \in {} |-> "none"]

\* _setup_db and _load_data at start-up: the table exists and is empty, no
\* import has run.
WorkerInit ==
  /\ pc = "Idle"
  /\ file = <<>>
  /\ db = <<>>
  /\ work = <<>>
  /\ upsertSupported \in BOOLEAN
  /\ line_no = 1
  /\ batch = <<>>
  /\ skipped = 0
  /\ error_lines = <<>>
  /\ have_upsert = TRUE
  /\ site = "row"
  /\ depth = 0
  /\ faults = 0
  /\ failed = FALSE
  /\ errBound = FALSE
  /\ posted = <<>>
  /\ uiLog = <<>>
  /\ all_data = <<>>
  /\ dbAtStart = <<>>
  /\ rerun = FALSE
  /\ batchLines = <<>>
  /\ writtenVia = NoLines
  /\ flushed = {}
  /\ rejectedLines = {}
  /\ atomicAfterReject = FALSE
  /\ escaped = FALSE
  /\ excLines = {}
  /\ begins = 0
  /\ commits = 0
  /\ phases = <<>>
  /\ failure = "none"
  /\ path = "unset"

\* No header is being resolved.
HeaderIdle ==
  /\ raw_headers = <<>>
  /\ headers_norm = <<>>
  /\ target_map = << >>
  /\ hstep = "none"

\* No encoding is being detected.
EncodingIdle ==
  /\ readable = TRUE
  /\ content = <<>>
  /\ detected = [raised |-> FALSE, enc |-> "none", bom |-> FALSE]
  /\ estep = "none"

\* No cell is being coerced.
CoercionIdle ==
  /\ cell = <<>>
  /\ price = [kind |-> "none", neg |-> FALSE, m |-> 0, e |-> 0]
  /\ stock = [kind |-> "none", neg |-> FALSE, m |-> 0, e |-> 0]
  /\ cstep = "none"

PureIdle == HeaderIdle /\ EncodingIdle /\ CoercionIdle

\* No worker thread has been started.
ThreadsIdle == threads = <<>>

\* flush_batch is not being called on its own.
FlushIdle ==
  /\ flushing = <<>>
  /\ tries = [atomic |-> 0, perrec |-> 0]
  /\ locked = FALSE
  /\ glitch = FALSE
  /\ stored = [rows |-> <<>>, seq |-> 0]
  /\ storedBefore = [rows |-> <<>>, seq |-> 0]

\* The supplier dashboard is not running.
DashIdle ==
  /\ page = 1
  /\ page_size = 1
  /\ sort_by = "name"
  /\ sort_dir = "ASC"
  /\ search_text = ""
  /\ loading = FALSE
  /\ total_pages = 0
  /\ load_workers = {}
  /\ data_queue = <<>>
  /\ tree = <<>>
  /\ page_info = 0
  /\ requested = <<>>
  /\ delivered = "none"

ExtraIdle == ThreadsIdle /\ FlushIdle /\ DashIdle

Init == WorkerInit /\ PureIdle /\ ExtraIdle

(***************************************************************************)
(* The worker                                                              *)
(***************************************************************************)

\* The start of the worker thread on the selected file: the file of the
\* previous run read again from its first row (again = TRUE), or a file whose
\* rows become known as the reader yields them.  The model opens the file
\* dialog when the previous worker has ended and its callbacks have run.
StartWorker(again) ==
  /\ pc \in {"Idle", "Done", "Failed"}
  /\ posted = <<>>
  /\ path' = "products.csv"
  /\ phases' = <<"Opening">>
  /\ failure' = "none"
  /\ rerun' = again
  /\ file' = IF again THEN file ELSE <<>>
  /\ pc' = "Opening"
  /\ work' = db
  /\ line_no' = 1
  /\ batch' = <<>>
  /\ skipped' = 0
  /\ error_lines' = <<>>
  /\ have_upsert' = TRUE
  /\ site' = "row"
  /\ depth' = 0
  /\ faults' = 0
  /\ failed' = FALSE
  /\ errBound' = FALSE
  /\ uiLog' = <<>>
  /\ dbAtStart' = db
  /\ batchLines' = <<>>
  /\ writtenVia' = NoLines
  /\ flushed' = {}
  /\ rejectedLines' = {}
  /\ atomicAfterReject' = FALSE
  /\ escaped' = FALSE
  /\ excLines' = {}
  /\ begins' = 0
  /\ commits' = 0
  /\ UNCHANGED << store, posted, all_data, aside >>

\* import_csv that starts the worker whatever the dialog answered.
ImportNoPathStartsWorker ==
  /\ pc \in {"Idle", "Done", "Failed"}
  /\ posted = <<>>
  /\ path' = ""
  /\ pc' = "Opening"
  /\ phases' = <<"Opening">>
  /\ UNCHANGED << file, work, faults, failed, errBound, ui, store, locals,
                  history, failure, aside >>

\* import_csv when the dialog is closed without a selection: askopenfilename
\* answers the empty string and `if not path: return` ends the call before
\* the worker is defined.
ImportNoPath ==
  /\ pc \in {"Idle", "Done", "Failed"}
  /\ posted = <<>>
  /\ path' = ""
  /\ UNCHANGED << pc, file, work, faults, failed, errBound, ui, store, locals,
                  history, progress, aside >>

\* import_csv with a selected path.
ImportCsv == StartWorker(FALSE)

\* import_csv with the path of the previous import, which ended in Done: the
\* same rows are read again.
ReimportCsv == pc = "Done" /\ StartWorker(TRUE)

\* _get_db_connection, _ensure_db_indexes and _open_csv_text.  The index is
\* created and committed on the new connection here, before the import's
\* transaction exists; it changes no row.  A failing connection escapes the
\* worker (the outer try has no except clause); a file that cannot be opened
\* is reported from the except clause, which returns.
OpenStep ==
  /\ pc = "Opening"
  /\ \E r \in {"ok", "no_connection", "no_file"} :
       /\ pc' = CASE r = "ok" -> "Mapping"
                  [] r = "no_connection" -> "Failed"
                  [] r = "no_file" -> "Return"
       /\ posted' = IF r = "no_file" THEN Append(posted, "open_error") ELSE posted
       /\ errBound' = (r = "no_file")
       /\ failure' = IF r = "ok" THEN failure ELSE r
  /\ UNCHANGED << file, work, faults, failed, uiLog, all_data, store, locals,
                  history, phases, path, aside >>

\* `return` in the except clause of the open: the clause is left (its `e` is
\* unbound) and the outer finally closes the connection.
WorkerReturn ==
  /\ pc = "Return"
  /\ pc' = "Failed"
  /\ errBound' = FALSE
  /\ UNCHANGED << file, work, faults, failed, ui, store, locals, history,
                  progress, path, aside >>

\* Sniff the delimiter, read the header, build the mapping, BEGIN, and set up
\* the loop's locals.  A file without a header row (next(reader, None) answers
\* None or an empty list) raises ValueError before the mapping; BEGIN may
\* raise.  The locals are assigned after BEGIN only; nothing reads them when
\* it was not reached.
MapStep ==
  /\ pc = "Mapping"
  /\ \/ /\ pc' = "Streaming"
        /\ work' = db
        /\ begins' = begins + 1
        /\ faults' = faults
        /\ phases' = phases \o <<"Sniffing", "Mapping", "Streaming">>
        /\ failure' = failure
     \/ /\ pc' = "Except"
        /\ phases' = phases \o <<"Sniffing", "Mapping">>
        /\ failure' = "no_header"
        /\ UNCHANGED << work, begins, faults >>
     \/ /\ faults < MaxFaults
        /\ faults' = faults + 1
        /\ pc' = "Except"
        /\ phases' = phases \o <<"Sniffing", "Mapping">>
        /\ failure' = "begin"
        /\ UNCHANGED << work, begins >>
  /\ have_upsert' = TRUE
  /\ batch' = <<>>
  /\ skipped' = 0
  /\ error_lines' = <<>>
  /\ line_no' = 1
  /\ UNCHANGED << file, failed, errBound, ui, store, site, depth, dbAtStart,
                  rerun, batchLines, writtenVia, flushed, rejectedLines,
                  atomicAfterReject, escaped, excLines, commits, path, aside >>

\* The row body with the line counted after the row instead of before it.
ProcessRowCountsLate(row) ==
  /\ line_no' = line_no + 1
  /\ IF ~RowAccepted(row)
     THEN /\ skipped' = skipped + 1
          /\ error_lines' = Append(error_lines, [line |-> line_no, kind |-> "missing"])
          /\ UNCHANGED << batch, batchLines, pc, site >>
     ELSE /\ batch' = Append(batch, RowTuple(row))
          /\ batchLines' = Append(batchLines, line_no + 1)
          /\ pc' = IF Len(batch) + 1 >= BATCH_SIZE THEN "Flush" ELSE "Streaming"
          /\ site' = "row"
          /\ UNCHANGED << skipped, error_lines >>

\* The body of `for row in reader` for the data row `row` on line line_no + 1,
\* up to the flush: count the line, clean the cells, reject the row or append
\* its tuple, and call flush_batch when the batch has reached BATCH_SIZE.
ProcessRow(row) ==
  LET ln == line_no + 1
  IN /\ line_no' = ln
     /\ IF ~RowAccepted(row)
        THEN /\ skipped' = skipped + 1
             /\ error_lines' = Append(error_lines, [line |-> ln, kind |-> "missing"])
             /\ UNCHANGED << batch, batchLines, pc, site >>
        ELSE /\ batch' = Append(batch, RowTuple(row))
             /\ batchLines' = Append(batchLines, ln)
             /\ pc' = IF Len(batch) + 1 >= BATCH_SIZE THEN "Flush" ELSE "Streaming"
             /\ site' = "row"
             /\ UNCHANGED << skipped, error_lines >>

\* The reader yields the next row: the next known row on a re-import, any row
\* otherwise.
RowStep ==
  /\ pc = "Streaming"
  /\ IF rerun
     THEN /\ line_no <= Len(file)
          /\ ProcessRow(file[line_no])
          /\ file' = file
     ELSE /\ Len(file) < MaxRows
          /\ \E row \in RowChoices :
               /\ ProcessRow(row)
               /\ file' = Append(file, row)
  /\ UNCHANGED << work, faults, failed, errBound, ui, store, have_upsert, depth,
                  dbAtStart, rerun, writtenVia, flushed, rejectedLines,
                  atomicAfterReject, escaped, excLines, begins, commits >>
  /\ UNCHANGED << progress, path, aside >>

\* The reader is exhausted: the unconditional flush_batch() after the loop.
EndOfRows ==
  /\ pc = "Streaming"
  /\ rerun => line_no - 1 = Len(file)
  /\ pc' = "Flush"
  /\ site' = "final"
  /\ UNCHANGED << file, work, faults, failed, errBound, ui, store, line_no,
                  batch, skipped, error_lines, have_upsert, depth, history >>
  /\ UNCHANGED << progress, path, aside >>

(***************************************************************************)
(* flush_batch                                                             *)
(***************************************************************************)

\* The statement form the try block of flush_batch uses.
Mode == IF have_upsert THEN "atomic" ELSE "perrec"

\* The try block of flush_batch applied to the tuples recs.
ApplyBatch(t, recs) ==
  IF have_upsert THEN ExecuteMany(t, recs) ELSE PerRecordLoop(t, recs)

\* Where control goes when flush_batch returns, and when it raises.
AfterFlush == IF site = "row" THEN "Streaming" ELSE "Commit"
Raised == IF site = "row" THEN "RowExcept" ELSE "Except"

\* writtenVia after the first k tuples of the batch have been written.
Written(k) ==
  LET ls == {batchLines[i] : i \in 1..k}
  IN [l \in (DOMAIN writtenVia) \cup ls |-> IF l \in ls THEN Mode ELSE writtenVia[l]]

BatchLineSet == {batchLines[i] : i \in 1..Len(batchLines)}

\* `if not batch: return`
FlushEmpty ==
  /\ pc = "Flush"
  /\ batch = <<>>
  /\ pc' = AfterFlush
  /\ UNCHANGED << file, work, faults, failed, errBound, ui, store, line_no, batch,
                  skipped, error_lines, have_upsert, site, depth, history >>
  /\ phases' = IF AfterFlush = "Commit" THEN Append(phases, "Committing") ELSE phases
  /\ UNCHANGED << failure, path, aside >>

\* A flush that commits its batch at once.
FlushOkCommits ==
  /\ pc = "Flush"
  /\ batch # <<>>
  /\ have_upsert => upsertSupported
  /\ work' = ApplyBatch(work, batch)
  /\ db' = ApplyBatch(work, batch)
  /\ commits' = commits + 1
  /\ writtenVia' = Written(Len(batch))
  /\ flushed' = flushed \cup {BatchLineSet}
  /\ atomicAfterReject' = (atomicAfterReject \/ (have_upsert /\ rejectedLines # {}))
  /\ batch' = <<>>
  /\ batchLines' = <<>>
  /\ depth' = 0
  /\ pc' = AfterFlush
  /\ UNCHANGED << file, faults, failed, errBound, ui, upsertSupported, line_no,
                  skipped, error_lines, have_upsert, site, dbAtStart, rerun,
                  rejectedLines, escaped, excLines, begins >>
  /\ phases' = IF AfterFlush = "Commit" THEN Append(phases, "Committing") ELSE phases
  /\ UNCHANGED << failure, path, aside >>

\* The try block runs to its end; batch.clear() in this frame and in every
\* frame that recursed into it.
FlushOk ==
  /\ pc = "Flush"
  /\ batch # <<>>
  /\ have_upsert => upsertSupported
  /\ work' = ApplyBatch(work, batch)
  /\ writtenVia' = Written(Len(batch))
  /\ flushed' = flushed \cup {BatchLineSet}
  /\ atomicAfterReject' = (atomicAfterReject \/ (have_upsert /\ rejectedLines # {}))
  /\ batch' = <<>>
  /\ batchLines' = <<>>
  /\ depth' = 0
  /\ pc' = AfterFlush
  /\ UNCHANGED << file, faults, failed, errBound, ui, store, line_no, skipped,
                  error_lines, have_upsert, site, dbAtStart, rerun,
                  rejectedLines, escaped, excLines, begins, commits >>
  /\ phases' = IF AfterFlush = "Commit" THEN Append(phases, "Committing") ELSE phases
  /\ UNCHANGED << failure, path, aside >>

\* The except clause of flush_batch without `have_upsert = False`: the
\* recursive call tries the same statement form again.
FlushOperationalErrorKeepsForm ==
  /\ pc = "Flush"
  /\ batch # <<>>
  /\ \E k \in 0..(Len(batch) - 1) :
       /\ \/ /\ have_upsert /\ ~upsertSupported /\ k = 0
             /\ faults' = faults
          \/ /\ have_upsert => upsertSupported
             /\ faults < MaxFaults
             /\ faults' = faults + 1
       /\ work' = ApplyBatch(work, SubSeq(batch, 1, k))
       /\ writtenVia' = Written(k)
  /\ flushed' = flushed \cup {BatchLineSet}
  /\ atomicAfterReject' = (atomicAfterReject \/ (have_upsert /\ rejectedLines # {}))
  /\ rejectedLines' = IF have_upsert THEN rejectedLines \cup BatchLineSet
                      ELSE rejectedLines
  /\ have_upsert' = have_upsert
  /\ IF depth < RecursionLimit
     THEN /\ depth' = depth + 1
          /\ pc' = "Flush"
          /\ escaped' = escaped
     ELSE /\ depth' = 0
          /\ pc' = Raised
          /\ escaped' = TRUE
  /\ UNCHANGED << file, failed, errBound, ui, store, line_no, batch, skipped,
                  error_lines, site, dbAtStart, rerun, batchLines, excLines,
                  begins, commits >>
  /\ UNCHANGED << progress, path, aside >>

\* The try block raises sqlite3.OperationalError after k tuples: the store
\* does not know the ON CONFLICT form (k = 0), or a transient fault.  The
\* except clause clears have_upsert and calls flush_batch() again; at the
\* recursion limit that call raises RecursionError, which leaves flush_batch.
FlushOperationalError ==
  /\ pc = "Flush"
  /\ batch # <<>>
  /\ \E k \in 0..(Len(batch) - 1) :
       /\ \/ /\ have_upsert /\ ~upsertSupported /\ k = 0
             /\ faults' = faults
          \/ /\ have_upsert => upsertSupported
             /\ faults < MaxFaults
             /\ faults' = faults + 1
       /\ work' = ApplyBatch(work, SubSeq(batch, 1, k))
       /\ writtenVia' = Written(k)
  /\ flushed' = flushed \cup {BatchLineSet}
  /\ atomicAfterReject' = (atomicAfterReject \/ (have_upsert /\ rejectedLines # {}))
  /\ rejectedLines' = IF have_upsert THEN rejectedLines \cup BatchLineSet
                      ELSE rejectedLines
  /\ have_upsert' = FALSE
  /\ IF depth < RecursionLimit
     THEN /\ depth' = depth + 1
          /\ pc' = "Flush"
          /\ escaped' = escaped
     ELSE /\ depth' = 0
          /\ pc' = Raised
          /\ escaped' = TRUE
  /\ UNCHANGED << file, failed, errBound, ui, store, line_no, batch, skipped,
                  error_lines, site, dbAtStart, rerun, batchLines, excLines,
                  begins, commits >>
  /\ UNCHANGED << progress, path, aside >>

\* flush_batch with batch.clear() in a finally clause: the batch is emptied
\* although the flush raised.
FlushOtherErrorClearsBatch ==
  /\ pc = "Flush"
  /\ batch # <<>>
  /\ have_upsert => upsertSupported
  /\ faults < MaxFaults
  /\ faults' = faults + 1
  /\ \E k \in 0..(Len(batch) - 1) :
       /\ work' = ApplyBatch(work, SubSeq(batch, 1, k))
       /\ writtenVia' = Written(k)
  /\ flushed' = flushed \cup {BatchLineSet}
  /\ atomicAfterReject' = (atomicAfterReject \/ (have_upsert /\ rejectedLines # {}))
  /\ batch' = <<>>
  /\ batchLines' = <<>>
  /\ depth' = 0
  /\ pc' = Raised
  /\ escaped' = TRUE
  /\ UNCHANGED << file, failed, errBound, ui, store, line_no, skipped,
                  error_lines, have_upsert, site, dbAtStart, rerun,
                  rejectedLines, excLines, begins, commits >>
  /\ UNCHANGED << progress, path, aside >>

\* The try block raises an exception that is no OperationalError after k
\* tuples: it leaves flush_batch through every frame; batch.clear() is not
\* reached.
FlushOtherError ==
  /\ pc = "Flush"
  /\ batch # <<>>
  /\ have_upsert => upsertSupported
  /\ faults < MaxFaults
  /\ faults' = faults + 1
  /\ \E k \in 0..(Len(batch) - 1) :
       /\ work' = ApplyBatch(work, SubSeq(batch, 1, k))
       /\ writtenVia' = Written(k)
  /\ flushed' = flushed \cup {BatchLineSet}
  /\ atomicAfterReject' = (atomicAfterReject \/ (have_upsert /\ rejectedLines # {}))
  /\ depth' = 0
  /\ pc' = Raised
  /\ escaped' = TRUE
  /\ UNCHANGED << file, failed, errBound, ui, store, line_no, batch, skipped,
                  error_lines, have_upsert, site, dbAtStart, rerun, batchLines,
                  rejectedLines, excLines, begins, commits >>
  /\ UNCHANGED << progress, path, aside >>

\* A per-row except clause that records the diagnostic and raises again.
RowExceptRaisesAgain ==
  /\ pc = "RowExcept"
  /\ skipped' = skipped + 1
  /\ error_lines' = Append(error_lines, [line |-> line_no, kind |-> "exception"])
  /\ excLines' = excLines \cup {line_no}
  /\ pc' = "Except"
  /\ UNCHANGED << file, work, faults, failed, errBound, ui, store, line_no, batch,
                  have_upsert, site, depth, dbAtStart, rerun, batchLines,
                  writtenVia, flushed, rejectedLines, atomicAfterReject,
                  escaped, begins, commits >>
  /\ UNCHANGED << progress, path, aside >>

\* `except Exception as e` of the row loop: count the row as skipped, record a
\* diagnostic with its line number, go on with the next row.
RowExcept ==
  /\ pc = "RowExcept"
  /\ skipped' = skipped + 1
  /\ error_lines' = Append(error_lines, [line |-> line_no, kind |-> "exception"])
  /\ excLines' = excLines \cup {line_no}
  /\ pc' = "Streaming"
  /\ UNCHANGED << file, work, faults, failed, errBound, ui, store, line_no, batch,
                  have_upsert, site, depth, dbAtStart, rerun, batchLines,
                  writtenVia, flushed, rejectedLines, atomicAfterReject,
                  escaped, begins, commits >>
  /\ UNCHANGED << progress, path, aside >>

(***************************************************************************)
(* The end of the run                                                      *)
(***************************************************************************)

\* conn.commit(): the transaction becomes the committed table, or the commit
\* raises and nothing is committed.
Commit ==
  /\ pc = "Commit"
  /\ \/ /\ db' = work
        /\ commits' = commits + 1
        /\ pc' = "Finally"
        /\ UNCHANGED << faults, escaped >>
     \/ /\ faults < MaxFaults
        /\ faults' = faults + 1
        /\ escaped' = TRUE
        /\ pc' = "Except"
        /\ UNCHANGED << db, commits >>
  /\ UNCHANGED << file, work, upsertSupported, failed, errBound, ui, locals,
                  dbAtStart, rerun, batchLines, writtenVia, flushed,
                  rejectedLines, atomicAfterReject, excLines, begins >>
  /\ UNCHANGED << progress, path, aside >>

\* The outer `except Exception`: roll back and hand the error dialog to the UI
\* thread.  The dialog's text is built when the callback runs, from the `e` of
\* this clause.
Except ==
  /\ pc = "Except"
  /\ work' = db
  /\ failed' = TRUE
  /\ errBound' = TRUE
  /\ posted' = Append(posted, "import_error")
  /\ pc' = "Finally"
  /\ UNCHANGED << file, faults, uiLog, all_data, store, locals, history >>
  /\ UNCHANGED << progress, path, aside >>

\* The except clause, if any, is left (its `e` is unbound); the finally clause
\* closes the file; the two callbacks after it are handed over; the connection
\* is closed.
Finally ==
  /\ pc = "Finally"
  /\ errBound' = FALSE
  /\ posted' = posted \o <<"load_data", "import_complete">>
  /\ pc' = IF failed THEN "Failed" ELSE "Done"
  /\ UNCHANGED << file, work, faults, failed, uiLog, all_data, store, locals,
                  history >>
  /\ UNCHANGED << progress, path, aside >>

(***************************************************************************)
(* The UI thread                                                           *)
(***************************************************************************)

\* The Tk event loop runs the oldest callback.  An error callback reads the
\* worker's `e`: a dialog if the worker is still inside the except clause, a
\* NameError raised in the callback (and no dialog) once it has left it.
UiCallback ==
  /\ posted # <<>>
  /\ posted' = Tail(posted)
  /\ LET cb == Head(posted)
     IN /\ uiLog' = Append(uiLog,
                      IF cb \in {"open_error", "import_error"}
                      THEN (IF errBound THEN "error_dialog" ELSE "callback_error")
                      ELSE cb)
        /\ all_data' = IF cb = "load_data" THEN db ELSE all_data
  /\ UNCHANGED << pc, file, work, faults, failed, errBound, store, locals,
                  history >>
  /\ UNCHANGED << progress, path, aside >>

Next ==
  \/ ImportNoPath
  \/ ImportCsv
  \/ OpenStep
  \/ WorkerReturn
  \/ MapStep
  \/ RowStep
  \/ EndOfRows
  \/ FlushEmpty
  \/ FlushOk
  \/ FlushOperationalError
  \/ FlushOtherError
  \/ RowExcept
  \/ Commit
  \/ Except
  \/ Finally
  \/ UiCallback

Spec == Init /\ [][Next]_vars

\* The same program, with the imports that repeat the previous file told apart
\* from the others.
NextReimport ==
  \/ ReimportCsv
  \/ Next

SpecReimport == Init /\ [][NextReimport]_vars

(***************************************************************************)
(* The header row                                                          *)
(*                                                                         *)
(* A raw header cell is a sequence of pieces: words, and the separator     *)
(* characters blank, no-break space, hyphen and underscore.  A normalized  *)
(* header is a string.                                                     *)
(***************************************************************************)

\* Most columns of a header row.
MaxCols == 3

HeaderSpace == {" ", "NBSP"}
HeaderSeparators == {" ", "NBSP", "-", "_"}

\* str.lower() on the words of the modelled headers.
Lower(w) ==
  CASE w = "SKU" -> "sku"
    [] w = "Name" -> "name"
    [] w = "Item" -> "item"
    [] w = "Code" -> "code"
    [] w = "Qty" -> "qty"
    [] OTHER -> w

RECURSIVE HeaderLStrip(_)
HeaderLStrip(h) ==
  IF h # <<>> /\ Head(h) \in HeaderSpace THEN HeaderLStrip(Tail(h)) ELSE h

RECURSIVE HeaderRStrip(_)
HeaderRStrip(h) ==
  IF h # <<>> /\ h[Len(h)] \in HeaderSpace
  THEN HeaderRStrip(SubSeq(h, 1, Len(h) - 1)) ELSE h

RECURSIVE JoinWords(_)
\* The pieces that are left, as one string.
JoinWords(h) == IF h = <<>> THEN "" ELSE Head(h) \o JoinWords(Tail(h))

IsWord(x) == x \notin HeaderSeparators

\* _normalize_header: strip, lower, no-break space to blank, then blanks,
\* hyphens and underscores removed.
NormalizeHeader(h) ==
  LET stripped == HeaderRStrip(HeaderLStrip(h))
      lowered == [i \in 1..Len(stripped) |-> Lower(stripped[i])]
      blanks == [i \in 1..Len(lowered) |->
                   IF lowered[i] = "NBSP" THEN " " ELSE lowered[i]]
  IN JoinWords(SelectSeq(blanks, IsWord))

RECURSIVE DedupeFrom(_, _, _)
\* The loop of _dedupe_headers over the headers left, with `seen` and `out`.
DedupeFrom(headers, seen, out) ==
  IF headers = <<>> THEN out
  ELSE LET base == Head(headers)
       IN IF base \in DOMAIN seen
          THEN LET n == seen[base] + 1
               IN DedupeFrom(Tail(headers), [seen EXCEPT ![base] = n],
                             Append(out, base \o ToString(n)))
          ELSE DedupeFrom(Tail(headers),
                          [k \in (DOMAIN seen) \cup {base} |->
                             IF k = base THEN 0 ELSE seen[k]],
                          Append(out, base))

\* _dedupe_headers with `seen[base] = 1` for a first occurrence: the second
\* occurrence gets the suffix 2.
DedupeHeadersCountsFirst(headers) ==
  [i \in 1..Len(headers) |->
     LET k == Cardinality({j \in 1..(i - 1) : headers[j] = headers[i]})
     IN IF k = 0 THEN headers[i] ELSE headers[i] \o ToString(k + 1)]

\* _dedupe_headers
DedupeHeaders(headers) == DedupeFrom(headers, [k \in {} |-> 0], <<>>)

\* The canonical fields and the synonyms table of _build_header_map.
Targets ==
  {"sku", "name", "price", "stock", "category", "status", "image_path",
   "description"}

\* The synonyms table with "name" accepted as a sku header too.
SynonymsNameIsSku ==
  [sku |-> {"sku", "productcode", "code", "itemcode", "id", "productid", "name"},
   name |-> {"name", "title", "productname", "descriptionshort", "itemname"},
   price |-> {"price", "unitprice", "sellprice", "rrp", "priceex", "priceinctax"},
   stock |-> {"stock", "qty", "quantity", "onhand", "inventory"},
   category |-> {"category", "cat", "segment"},
   status |-> {"status", "state", "enabled", "active"},
   image_path |-> {"image", "imagepath", "imageurl", "picture", "img"},
   description |-> {"description", "longdescription", "fulldescription",
                    "details", "notes"}]

Synonyms ==
  [sku |-> {"sku", "productcode", "code", "itemcode", "id", "productid"},
   name |-> {"name", "title", "productname", "descriptionshort", "itemname"},
   price |-> {"price", "unitprice", "sellprice", "rrp", "priceex", "priceinctax"},
   stock |-> {"stock", "qty", "quantity", "onhand", "inventory"},
   category |-> {"category", "cat", "segment"},
   status |-> {"status", "state", "enabled", "active"},
   image_path |-> {"image", "imagepath", "imageurl", "picture", "img"},
   description |-> {"description", "longdescription", "fulldescription",
                    "details", "notes"}]

\* The columns (one-based) whose header is a synonym of the target.
MatchingColumns(hdrs_norm, target) ==
  {i \in 1..Len(hdrs_norm) : hdrs_norm[i] \in Synonyms[target]}

\* _build_header_map without its `break`: the last matching column wins.
BuildHeaderMapLastMatch(hdrs_norm) ==
  LET found == {t \in Targets : MatchingColumns(hdrs_norm, t) # {}}
  IN [t \in found |->
        (CHOOSE i \in MatchingColumns(hdrs_norm, t) :
           \A j \in MatchingColumns(hdrs_norm, t) : j <= i) - 1]

\* _build_header_map: for each target the first column, in header order,
\* whose header is one of its synonyms (zero-based); no entry without one.
BuildHeaderMap(hdrs_norm) ==
  LET found == {t \in Targets : MatchingColumns(hdrs_norm, t) # {}}
  IN [t \in found |->
        (CHOOSE i \in MatchingColumns(hdrs_norm, t) :
           \A j \in MatchingColumns(hdrs_norm, t) : i <= j) - 1]

\* The raw header cells of the modelled files.
RawTokens ==
  { <<"Name">>, <<" ", "name", "NBSP">>, <<"name", "1">>, <<"name", "_", "2">>,
    <<"SKU">>, <<"Item", "-", "Code">>, <<"Qty">>, <<"stock">>, <<"colour">>,
    <<>> }

\* The header rows: one to MaxCols cells.
HeaderRows ==
  UNION {[1..n -> RawTokens] : n \in 1..MaxCols}

\* A header row has been read (raw_headers is not empty).
InitHeader ==
  /\ WorkerInit
  /\ ExtraIdle
  /\ raw_headers \in HeaderRows
  /\ headers_norm = <<>>
  /\ target_map = << >>
  /\ hstep = "raw"
  /\ EncodingIdle
  /\ CoercionIdle

\* headers_norm = [self._normalize_header(h) for h in raw_headers]
NormalizeHeaders ==
  /\ hstep = "raw"
  /\ headers_norm' = [i \in 1..Len(raw_headers) |-> NormalizeHeader(raw_headers[i])]
  /\ hstep' = "normalized"
  /\ UNCHANGED << worker, extra, raw_headers, target_map, encoding, coercion >>

\* headers_norm = self._dedupe_headers(headers_norm)
DedupeStep ==
  /\ hstep = "normalized"
  /\ headers_norm' = DedupeHeaders(headers_norm)
  /\ hstep' = "deduped"
  /\ UNCHANGED << worker, extra, raw_headers, target_map, encoding, coercion >>

\* target_map = self._build_header_map(headers_norm)
BuildMapStep ==
  /\ hstep = "deduped"
  /\ target_map' = BuildHeaderMap(headers_norm)
  /\ hstep' = "mapped"
  /\ UNCHANGED << worker, extra, raw_headers, headers_norm, encoding, coercion >>

NextHeader ==
  \/ NormalizeHeaders
  \/ DedupeStep
  \/ BuildMapStep

\* The header resolution of the worker, on every header row.
SpecHeader == InitHeader /\ [][NextHeader]_vars

(***************************************************************************)
(* The encoding detector                                                   *)
(*                                                                         *)
(* A file is a sequence of bytes, written as their two hexadecimal digits. *)
(***************************************************************************)

\* Longest file, in bytes.
MaxBytes == 4

\* The bytes of the modelled files: those of the byte-order marks, NUL, the
\* letter A, and 0x81, which is a UTF-8 continuation byte and has no
\* character in cp1252.
Bytes == {"EF", "BB", "BF", "FF", "FE", "00", "41", "81"}

\* bytes.startswith
StartsWith(b, prefix) ==
  Len(b) >= Len(prefix) /\ SubSeq(b, 1, Len(prefix)) = prefix

\* fb.read(n)
ReadBytes(b, n) == IF Len(b) <= n THEN b ELSE SubSeq(b, 1, n)

Utf8Ascii == {"00", "41"}
Utf8Continuation == {"BB", "BF", "81"}

RECURSIVE Utf8Decodes(_)
\* bytes.decode("utf-8") does not raise: ASCII bytes stand alone, 0xEF leads
\* a sequence of three bytes, the other bytes cannot start a character.
Utf8Decodes(b) ==
  IF b = <<>> THEN TRUE
  ELSE IF Head(b) \in Utf8Ascii THEN Utf8Decodes(Tail(b))
  ELSE IF Head(b) = "EF"
       THEN /\ Len(b) >= 3
            /\ b[2] \in Utf8Continuation
            /\ b[3] \in Utf8Continuation
            /\ Utf8Decodes(SubSeq(b, 4, Len(b)))
  ELSE FALSE

\* bytes.decode(enc) does not raise.
Decodes(enc, b) ==
  CASE enc = "utf-8" -> Utf8Decodes(b)
    [] enc = "utf-8-sig" ->
         Utf8Decodes(IF StartsWith(b, <<"EF", "BB", "BF">>)
                     THEN SubSeq(b, 4, Len(b)) ELSE b)
    [] enc = "cp1252" -> \A i \in 1..Len(b) : b[i] # "81"
    [] enc = "latin-1" -> TRUE
    [] enc \in {"utf-16", "utf-16le", "utf-16be"} -> Len(b) % 2 = 0
    [] OTHER -> FALSE

\* candidates
Candidates == <<"utf-8", "cp1252", "latin-1", "utf-16", "utf-16le", "utf-16be">>

Answer(e, b) == [raised |-> FALSE, enc |-> e, bom |-> b]

\* The loop over the candidates, and the return after it.
FirstDecoding(sample) ==
  IF \E i \in 1..Len(Candidates) : Decodes(Candidates[i], sample)
  THEN Answer(Candidates[CHOOSE i \in 1..Len(Candidates) :
                           /\ Decodes(Candidates[i], sample)
                           /\ \A j \in 1..(i - 1) : ~Decodes(Candidates[j], sample)],
              FALSE)
  ELSE Answer("latin-1", FALSE)

\* A detector that answers UTF-32 where the source only passes.
DetectEncodingUtf32(canRead, b) ==
  LET head == ReadBytes(b, 8)
  IN IF ~canRead THEN [raised |-> TRUE, enc |-> "none", bom |-> FALSE]
     ELSE IF StartsWith(head, <<"EF", "BB", "BF">>) THEN Answer("utf-8-sig", TRUE)
     ELSE IF \/ StartsWith(head, <<"FF", "FE", "00", "00">>)
             \/ StartsWith(head, <<"00", "00", "FE", "FF">>)
          THEN Answer("utf-32", TRUE)
     ELSE IF StartsWith(head, <<"FF", "FE">>) THEN Answer("utf-16le", TRUE)
     ELSE IF StartsWith(head, <<"FE", "FF">>) THEN Answer("utf-16be", TRUE)
     ELSE FirstDecoding(ReadBytes(b, 65536))

\* _detect_encoding(path) for a file with the bytes b: open(path, "rb")
\* raises when the file cannot be read; the test for the UTF-32 marks does
\* nothing.
DetectEncoding(canRead, b) ==
  LET head == ReadBytes(b, 8)
  IN IF ~canRead THEN [raised |-> TRUE, enc |-> "none", bom |-> FALSE]
     ELSE IF StartsWith(head, <<"EF", "BB", "BF">>) THEN Answer("utf-8-sig", TRUE)
     ELSE IF StartsWith(head, <<"FF", "FE">>) THEN Answer("utf-16le", TRUE)
     ELSE IF StartsWith(head, <<"FE", "FF">>) THEN Answer("utf-16be", TRUE)
     ELSE FirstDecoding(ReadBytes(b, 65536))

\* The files: every sequence of at most MaxBytes bytes.
Contents == UNION {[1..n -> Bytes] : n \in 0..MaxBytes}

\* A path has been selected; its file can be read or not.
InitEncoding ==
  /\ WorkerInit
  /\ ExtraIdle
  /\ HeaderIdle
  /\ CoercionIdle
  /\ readable \in BOOLEAN
  /\ content \in Contents
  /\ detected = [raised |-> FALSE, enc |-> "none", bom |-> FALSE]
  /\ estep = "path"

\* enc, _ = self._detect_encoding(path)
DetectStep ==
  /\ estep = "path"
  /\ detected' = DetectEncoding(readable, content)
  /\ estep' = "detected"
  /\ UNCHANGED << worker, extra, header, coercion, readable, content >>

NextEncoding == DetectStep

\* The encoding detector on every file.
SpecEncoding == InitEncoding /\ [][NextEncoding]_vars

(***************************************************************************)
(* Numeric coercion                                                        *)
(*                                                                         *)
(* A number is kept as a sign, a decimal mantissa m and a power of ten e:  *)
(* the value m * 10^e.  Zero is m = 0, e = 0.                              *)
(***************************************************************************)

\* Longest price or stock cell, in characters.
MaxCellLen == 4

\* The characters of the modelled cells.
CellChars == {"1", "9", "e", ".", ",", "$", "-", "n", "a", "N", "SP"}

Digits == {"1", "9"}
DigitVal(c) == IF c = "1" THEN 1 ELSE 9

\* str.lower() on the characters of the cells.
LowerChar(c) == IF c = "N" THEN "n" ELSE c
LowerText(s) == [i \in 1..Len(s) |-> LowerChar(s[i])]

\* The texts both coercions take for zero.
Sentinels ==
  { <<"n", "/", "a">>, <<"n", "a">>, <<"n", "u", "l", "l">>,
    <<"n", "o", "n", "e">>, <<"-">> }

Number(k, neg, m, e) == [kind |-> k, neg |-> neg, m |-> m, e |-> e]
Zero == Number("num", FALSE, 0, 0)
NaN == Number("nan", FALSE, 0, 0)
Infinity(neg) == Number("inf", neg, 0, 0)
\* An exception raised by float() or int().
Raises(exc) == Number(exc, FALSE, 0, 0)
IsException(x) == x.kind \in {"ValueError", "OverflowError"}

RECURSIVE DigitsValue(_)
DigitsValue(ds) ==
  IF ds = <<>> THEN 0
  ELSE DigitsValue(SubSeq(ds, 1, Len(ds) - 1)) * 10 + DigitVal(ds[Len(ds)])

AllDigits(ds) == \A i \in 1..Len(ds) : ds[i] \in Digits

RECURSIVE NumDigits(_)
\* The number of decimal digits of a positive integer.
NumDigits(n) == IF n < 10 THEN 1 ELSE 1 + NumDigits(n \div 10)

RECURSIVE Pow10(_)
Pow10(k) == IF k = 0 THEN 1 ELSE 10 * Pow10(k - 1)

\* The first five significant digits of a mantissa below 100000.
Lead5(m) == m * Pow10(5 - NumDigits(m))

\* The position of the first c in s, or 0.
IndexOf(s, c) ==
  IF \E i \in 1..Len(s) : s[i] = c
  THEN CHOOSE i \in 1..Len(s) : s[i] = c /\ \A j \in 1..(i - 1) : s[j] # c
  ELSE 0

\* The double nearest to m * 10^e: infinity beyond the largest double
\* (1.7976931348623157e308), zero below half the smallest (2.47e-324).
Rounded(neg, m, e) ==
  LET mag == NumDigits(m) + e
  IN IF mag > 309 \/ (mag = 309 /\ Lead5(m) >= 17977) THEN Infinity(neg)
     ELSE IF mag < -323 \/ (mag = -323 /\ Lead5(m) <= 24703)
          THEN Number("num", neg, 0, 0)
     ELSE Number("num", neg, m, e)

\* float(s): blanks around the text are ignored; an optional sign; then nan,
\* or digits with at most one point and at least one digit, optionally
\* followed by e, an optional sign and digits.  ValueError otherwise.
Float(s) ==
  LET t == Strip(s)
      neg == t # <<>> /\ Head(t) = "-"
      u == IF neg THEN Tail(t) ELSE t
      ePos == IndexOf(u, "e")
      mant == IF ePos = 0 THEN u ELSE SubSeq(u, 1, ePos - 1)
      expo == IF ePos = 0 THEN <<>> ELSE SubSeq(u, ePos + 1, Len(u))
      expNeg == expo # <<>> /\ Head(expo) = "-"
      expDigits == IF expNeg THEN Tail(expo) ELSE expo
      dot == IndexOf(mant, ".")
      whole == IF dot = 0 THEN mant ELSE SubSeq(mant, 1, dot - 1)
      frac == IF dot = 0 THEN <<>> ELSE SubSeq(mant, dot + 1, Len(mant))
      mantOk == AllDigits(whole) /\ AllDigits(frac) /\ Len(whole) + Len(frac) >= 1
      expOk == ePos = 0 \/ (AllDigits(expDigits) /\ expDigits # <<>>)
      exp == IF expNeg THEN 0 - DigitsValue(expDigits) ELSE DigitsValue(expDigits)
  IN IF LowerText(u) = <<"n", "a", "n">> THEN NaN
     ELSE IF mantOk /\ expOk
          THEN Rounded(neg, DigitsValue(whole \o frac), exp - Len(frac))
     ELSE Raises("ValueError")

\* int(x) of a float: ValueError for nan, OverflowError for an infinity, else
\* the value cut towards zero.  (For e > 22 the integer of the double differs
\* from m * 10^e in its low digits, not in its size.)
IntOfFloat(x) ==
  CASE x.kind = "nan" -> Raises("ValueError")
    [] x.kind = "inf" -> Raises("OverflowError")
    [] x.kind = "num" ->
         IF x.e >= 0 THEN (IF x.m = 0 THEN Zero ELSE x)
         ELSE LET q == IF 0 - x.e > 9 THEN 0 ELSE x.m \div Pow10(0 - x.e)
              IN IF q = 0 THEN Zero ELSE Number("num", x.neg, q, 0)
    [] OTHER -> x

\* s.replace(c, "")
Without(s, c) == LET Keep(x) == x # c IN SelectSeq(s, Keep)

\* _to_float
ToFloat(x) ==
  LET s == Strip(x)
  IN IF s = <<>> \/ LowerText(s) \in Sentinels THEN Zero
     ELSE LET v == Float(Without(Without(s, "$"), ","))
          IN IF IsException(v) THEN Zero ELSE v

\* _to_int
ToInt(x) ==
  LET s == Strip(x)
  IN IF s = <<>> \/ LowerText(s) \in Sentinels THEN Zero
     ELSE LET f == Float(Without(s, ","))
              v == IF IsException(f) THEN f ELSE IntOfFloat(f)
          IN IF IsException(v) THEN Zero ELSE v

\* The store takes an integer parameter of 64 bits: binding one whose
\* absolute value is 2^63 = 9223372036854775808 or more raises OverflowError.
FitsInt64(n) ==
  \/ n.m = 0
  \/ NumDigits(n.m) + n.e < 19
  \/ (NumDigits(n.m) + n.e = 19 /\ Lead5(n.m) <= 92233)

\* The cells: every text of at most MaxCellLen characters.
Cells == UNION {[1..n -> CellChars] : n \in 0..MaxCellLen}

\* A data row with a sku and a name has been read; its price and its stock
\* cell hold the same text.
InitCoerce ==
  /\ WorkerInit
  /\ ExtraIdle
  /\ HeaderIdle
  /\ EncodingIdle
  /\ cell \in Cells
  /\ price = [kind |-> "none", neg |-> FALSE, m |-> 0, e |-> 0]
  /\ stock = [kind |-> "none", neg |-> FALSE, m |-> 0, e |-> 0]
  /\ cstep = "row"

\* The row body from the coercions to batch.append; an exception of a
\* coercion would be caught by the row's except clause.
CoerceRow ==
  /\ cstep = "row"
  /\ price' = ToFloat(SanitizeCell(cell))
  /\ stock' = ToInt(SanitizeCell(cell))
  /\ cstep' = IF IsException(ToFloat(SanitizeCell(cell))) \/ IsException(ToInt(SanitizeCell(cell)))
              THEN "skipped" ELSE "batched"
  /\ UNCHANGED << worker, extra, header, encoding, cell >>

\* The flush of the batch that holds the row, and the commit: executemany
\* binds the tuple; OverflowError is no OperationalError, leaves flush_batch
\* and the outer except clause rolls the import back.
FlushRow ==
  /\ cstep = "batched"
  /\ cstep' = IF FitsInt64(stock) THEN "committed" ELSE "rolled_back"
  /\ UNCHANGED << worker, extra, header, encoding, cell, price, stock >>

NextCoerce ==
  \/ CoerceRow
  \/ FlushRow

\* The numeric cells of a row, on every text.
SpecCoerce == InitCoerce /\ [][NextCoerce]_vars

(***************************************************************************)
(* import_csv called at any time                                           *)
(*                                                                         *)
(* The "Import CSV" button stays enabled while a worker thread runs, and   *)
(* import_csv keeps no record of the threads it has started.  A thread is  *)
(* followed through the stages of the worker only.                         *)
(***************************************************************************)

\* Calls of import_csv with a selected path.
MaxImports == 3

\* The worker's variables other than the dialog's answer.
workerState == << pc, file, db, work, upsertSupported, line_no, batch, skipped,
                  error_lines, have_upsert, site, depth, faults, failed, errBound,
                  posted, uiLog, all_data,
                  dbAtStart, rerun, batchLines, writtenVia, flushed, rejectedLines,
                  atomicAfterReject, escaped, excLines, begins, commits,
                  phases, failure >>

\* The stages a worker thread can go to from a stage: the next one, or its
\* end when the stage fails.
StagesAfter(stage) ==
  CASE stage = "Opening" -> {"Sniffing", "Ended"}
    [] stage = "Sniffing" -> {"Mapping", "Ended"}
    [] stage = "Mapping" -> {"Streaming", "Ended"}
    [] stage = "Streaming" -> {"Committing", "Ended"}
    [] stage = "Committing" -> {"Ended"}
    [] OTHER -> {}

\* The worker threads that have not ended.
InFlight == {i \in 1..Len(threads) : threads[i] # "Ended"}

InitThreads ==
  /\ WorkerInit
  /\ PureIdle
  /\ ExtraIdle

\* import_csv, the dialog closed without a selection: `if not path: return`.
CancelDialog ==
  /\ path # ""
  /\ path' = ""
  /\ UNCHANGED << workerState, pure, extra >>

\* import_csv with a selected path: threading.Thread(target=worker,
\* daemon=True).start(), whatever the threads started before are doing.
StartThread ==
  /\ Len(threads) < MaxImports
  /\ path' = "products.csv"
  /\ threads' = Append(threads, "Opening")
  /\ UNCHANGED << workerState, pure, flushcall, dashboard >>

\* A worker thread goes on to its next stage, or ends.
ThreadStep ==
  /\ \E i \in InFlight :
       \E stage \in StagesAfter(threads[i]) :
         threads' = [threads EXCEPT ![i] = stage]
  /\ UNCHANGED << worker, pure, flushcall, dashboard >>

NextThreads ==
  \/ CancelDialog
  \/ StartThread
  \/ ThreadStep

\* The calls of import_csv and the threads they start.
SpecThreads == InitThreads /\ [][NextThreads]_vars

(***************************************************************************)
(* One call of flush_batch                                                 *)
(*                                                                         *)
(* Here the products table keeps its ids: `rows` are the records in id     *)
(* order, `seq` is the highest id the table has handed out (AUTOINCREMENT, *)
(* sqlite_sequence).  An INSERT takes the id seq + 1; the INSERT of the    *)
(* upsert takes it before the conflict on sku is found, so the id is used  *)
(* up although the statement then updates the stored row.                  *)
(***************************************************************************)

\* Frames of flush_batch that fit on the stack before a further call raises
\* RecursionError.
StackLimit == 3

RecordOf(row) == [sku |-> row.sku, name |-> row.name]

\* The records of a table without their ids, in id order.
RecordsOf(t) == [i \in 1..Len(t.rows) |-> RecordOf(t.rows[i])]

\* UPDATE products SET ... WHERE sku=?: the row keeps its id.
UpdateStored(rows, rec) ==
  [i \in 1..Len(rows) |->
     IF rows[i].sku = rec.sku THEN [id |-> rows[i].id, sku |-> rec.sku, name |-> rec.name]
     ELSE rows[i]]

\* INSERT INTO products ...: the new row gets the next id.
InsertStored(t, rec) ==
  [rows |-> Append(t.rows, [id |-> t.seq + 1, sku |-> rec.sku, name |-> rec.name]),
   seq |-> t.seq + 1]

\* upsert_sql for one tuple.
UpsertStored(t, rec) ==
  IF HasSku(t.rows, rec.sku)
  THEN [rows |-> UpdateStored(t.rows, rec), seq |-> t.seq + 1]
  ELSE InsertStored(t, rec)

\* The fallback that leaves a stored record as it is.
PerRecordStoredKeeps(t, rec) ==
  IF HasSku(t.rows, rec.sku) THEN t ELSE InsertStored(t, rec)

\* The fallback for one tuple: SELECT id, then UPDATE or INSERT.
PerRecordStored(t, rec) ==
  IF HasSku(t.rows, rec.sku)
  THEN [rows |-> UpdateStored(t.rows, rec), seq |-> t.seq]
  ELSE InsertStored(t, rec)

RECURSIVE ExecuteManyStored(_, _)
\* cur.executemany(upsert_sql, batch)
ExecuteManyStored(t, recs) ==
  IF recs = <<>> THEN t
  ELSE ExecuteManyStored(UpsertStored(t, Head(recs)), Tail(recs))

RECURSIVE PerRecordLoopStored(_, _)
\* for tpl in batch: ...
PerRecordLoopStored(t, recs) ==
  IF recs = <<>> THEN t
  ELSE PerRecordLoopStored(PerRecordStored(t, Head(recs)), Tail(recs))

\* The try block of flush_batch on the tuples recs.
ApplyStored(t, recs) ==
  IF have_upsert THEN ExecuteManyStored(t, recs) ELSE PerRecordLoopStored(t, recs)

\* The tuples a row of the file can put into the batch.
BatchTuples == {RowTuple(row) : row \in {r \in RowChoices : RowAccepted(r)}}

\* The batches flush_batch can be called on.
Batches == UNION {[1..n -> BatchTuples] : n \in 0..BATCH_SIZE}

\* The tables flush_batch can find: empty, with the sku of a tuple, with two
\* skus that differ in case only, and with an id already given away.
TablesBefore ==
  { [rows |-> <<>>, seq |-> 0],
    [rows |-> <<[id |-> 1, sku |-> <<"A">>, name |-> <<"o">>]>>, seq |-> 1],
    [rows |-> <<[id |-> 1, sku |-> <<"a">>, name |-> <<"o">>],
                [id |-> 2, sku |-> <<"A">>, name |-> <<"o">>]>>, seq |-> 2],
    [rows |-> <<[id |-> 2, sku |-> <<"A">>, name |-> <<"o">>]>>, seq |-> 3] }

\* The worker's variables flush_batch does not touch.
outsideFlush == << file, db, work, upsertSupported, line_no, skipped, error_lines,
                   site, faults, failed, errBound, posted, uiLog, all_data,
                   dbAtStart, rerun, batchLines, writtenVia, flushed,
                   rejectedLines, atomicAfterReject, escaped, excLines, begins,
                   commits, phases, failure, path >>

\* flush_batch is called: in a transaction, on any batch, with either
\* statement form, on a store that knows the ON CONFLICT form or does not,
\* that is locked by another connection or is not, and that may raise once.
InitFlush ==
  /\ pc = "Flush"
  /\ batch \in Batches
  /\ have_upsert \in BOOLEAN
  /\ depth = 0
  /\ upsertSupported \in BOOLEAN
  /\ locked \in BOOLEAN
  /\ glitch \in BOOLEAN
  /\ stored \in TablesBefore
  /\ storedBefore = stored
  /\ flushing = batch
  /\ tries = [atomic |-> 0, perrec |-> 0]
  /\ file = <<>>
  /\ db = <<>>
  /\ work = <<>>
  /\ line_no = 1
  /\ skipped = 0
  /\ error_lines = <<>>
  /\ site = "row"
  /\ faults = 0
  /\ failed = FALSE
  /\ errBound = FALSE
  /\ posted = <<>>
  /\ uiLog = <<>>
  /\ all_data = <<>>
  /\ dbAtStart = <<>>
  /\ rerun = FALSE
  /\ batchLines = <<>>
  /\ writtenVia = NoLines
  /\ flushed = {}
  /\ rejectedLines = {}
  /\ atomicAfterReject = FALSE
  /\ escaped = FALSE
  /\ excLines = {}
  /\ begins = 1
  /\ commits = 0
  /\ phases = <<"Opening", "Sniffing", "Mapping", "Streaming">>
  /\ failure = "none"
  /\ path = "products.csv"
  /\ PureIdle
  /\ ThreadsIdle
  /\ DashIdle

\* tries with one more attempt in the statement form of this frame.
Tried == [tries EXCEPT ![Mode] = tries[Mode] + 1]

\* `if not batch: return`
FlushCallEmpty ==
  /\ pc = "Flush"
  /\ batch = <<>>
  /\ pc' = "Returned"
  /\ UNCHANGED << batch, have_upsert, depth, outsideFlush, pure, threads,
                  flushcall, dashboard >>

\* The try block runs to its end; batch.clear() in this frame and in every
\* frame that called it.
FlushCallOk ==
  /\ pc = "Flush"
  /\ batch # <<>>
  /\ ~locked
  /\ have_upsert => upsertSupported
  /\ stored' = ApplyStored(stored, batch)
  /\ tries' = Tried
  /\ batch' = <<>>
  /\ depth' = 0
  /\ pc' = "Returned"
  /\ UNCHANGED << have_upsert, outsideFlush, pure, threads, flushing, locked,
                  glitch, storedBefore, dashboard >>

\* The try block raises sqlite3.OperationalError: at once when the store is
\* locked or does not know the ON CONFLICT form, after any k tuples when the
\* store raises in passing.  The except clause clears have_upsert and calls
\* flush_batch() again; when the stack is full that call raises
\* RecursionError, which leaves every frame with the batch as it was.
FlushCallOperationalError ==
  /\ pc = "Flush"
  /\ batch # <<>>
  /\ \E k \in 0..(Len(batch) - 1) :
       /\ \/ /\ locked \/ (have_upsert /\ ~upsertSupported)
             /\ k = 0
             /\ glitch' = glitch
          \/ /\ ~locked
             /\ have_upsert => upsertSupported
             /\ glitch
             /\ glitch' = FALSE
       /\ stored' = ApplyStored(stored, SubSeq(batch, 1, k))
  /\ tries' = Tried
  /\ have_upsert' = FALSE
  /\ IF depth + 1 < StackLimit
     THEN /\ depth' = depth + 1
          /\ pc' = "Flush"
     ELSE /\ depth' = 0
          /\ pc' = "Raised"
  /\ UNCHANGED << batch, outsideFlush, pure, threads, flushing, locked,
                  storedBefore, dashboard >>

NextFlush ==
  \/ FlushCallEmpty
  \/ FlushCallOk
  \/ FlushCallOperationalError

\* A call of flush_batch, from every state it can be called in.
SpecFlush == InitFlush /\ [][NextFlush]_vars

(***************************************************************************)
(* The rows of a file under the mapping of its header                      *)
(*                                                                         *)
(* The row loop with the header row of the file as it is, on a store that  *)
(* raises nothing.                                                         *)
(***************************************************************************)

\* Longest file of this part, in data rows.
MaxStreamed == 2

\* get_by_target with a column for every field: idx = target_map.get(t, 0).
GetMappedOrFirst(map, vals, t) ==
  LET idx == IF t \in DOMAIN map THEN map[t] ELSE 0
  IN IF idx < Len(vals) THEN vals[idx + 1] ELSE <<>>

\* get_by_target(t): idx = target_map.get(t, None); the cleaned cell of
\* column idx, or "" when the field has no column or the row is too short.
GetMapped(map, vals, t) ==
  IF t \in DOMAIN map /\ map[t] < Len(vals) THEN vals[map[t] + 1] ELSE <<>>

\* vals of a row under the header of the file.
ValsUnder(hdrs, row) ==
  [i \in 1..Len(hdrs) |-> IF i <= Len(row) THEN SanitizeCell(row[i]) ELSE <<>>]

\* The rows csv.reader may yield here: a cell in every column, the first cell
\* blank, and a row of one cell.
MappedRowChoices ==
  { [i \in 1..MaxCols |-> <<"A">>],
    [i \in 1..MaxCols |-> IF i = 1 THEN <<"SP">> ELSE <<"A">>],
    << <<"A">> >> }

\* The worker's variables the row loop does not assign on a store that
\* raises nothing.
outsideStream == << upsertSupported, have_upsert, site, depth, faults, failed,
                    errBound, uiLog, all_data, dbAtStart, rerun, batchLines,
                    writtenVia, flushed, rejectedLines, atomicAfterReject,
                    escaped, excLines, begins, phases, failure, path >>

\* The worker has read the header row, built the mapping and begun its
\* transaction on an empty table.
InitMapped ==
  /\ raw_headers \in HeaderRows
  /\ headers_norm =
       DedupeHeaders([i \in 1..Len(raw_headers) |-> NormalizeHeader(raw_headers[i])])
  /\ target_map = BuildHeaderMap(headers_norm)
  /\ hstep = "mapped"
  /\ pc = "Streaming"
  /\ file = <<>>
  /\ db = <<>>
  /\ work = <<>>
  /\ upsertSupported = TRUE
  /\ line_no = 1
  /\ batch = <<>>
  /\ skipped = 0
  /\ error_lines = <<>>
  /\ have_upsert = TRUE
  /\ site = "row"
  /\ depth = 0
  /\ faults = 0
  /\ failed = FALSE
  /\ errBound = FALSE
  /\ posted = <<>>
  /\ uiLog = <<>>
  /\ all_data = <<>>
  /\ dbAtStart = <<>>
  /\ rerun = FALSE
  /\ batchLines = <<>>
  /\ writtenVia = NoLines
  /\ flushed = {}
  /\ rejectedLines = {}
  /\ atomicAfterReject = FALSE
  /\ escaped = FALSE
  /\ excLines = {}
  /\ begins = 1
  /\ commits = 0
  /\ phases = <<"Opening", "Sniffing", "Mapping", "Streaming">>
  /\ failure = "none"
  /\ path = "products.csv"
  /\ EncodingIdle
  /\ CoercionIdle
  /\ ExtraIdle

\* The body of `for row in reader` under target_map: count the line, clean
\* the cells, skip the row without sku or name, else append its tuple and
\* flush a full batch.
StreamRow ==
  /\ pc = "Streaming"
  /\ Len(file) < MaxStreamed
  /\ \E row \in MappedRowChoices :
       LET vals == ValsUnder(headers_norm, row)
           sku == GetMapped(target_map, vals, "sku")
           name == GetMapped(target_map, vals, "name")
           full == Append(batch, [sku |-> sku, name |-> name])
       IN /\ file' = Append(file, row)
          /\ line_no' = line_no + 1
          /\ IF sku = <<>> \/ name = <<>>
             THEN /\ skipped' = skipped + 1
                  /\ error_lines' =
                       Append(error_lines, [line |-> line_no + 1, kind |-> "missing"])
                  /\ UNCHANGED << batch, work >>
             ELSE /\ IF Len(full) >= BATCH_SIZE
                     THEN /\ work' = ExecuteMany(work, full)
                          /\ batch' = <<>>
                     ELSE /\ work' = work
                          /\ batch' = full
                  /\ UNCHANGED << skipped, error_lines >>
  /\ UNCHANGED << pc, db, commits, posted, outsideStream, pure, extra >>

\* The reader is exhausted: the final flush_batch(), conn.commit(), and the
\* two callbacks handed to the UI thread.
FinishStream ==
  /\ pc = "Streaming"
  /\ work' = ExecuteMany(work, batch)
  /\ batch' = <<>>
  /\ db' = ExecuteMany(work, batch)
  /\ commits' = commits + 1
  /\ posted' = posted \o <<"load_data", "import_complete">>
  /\ pc' = "Done"
  /\ UNCHANGED << file, line_no, skipped, error_lines, outsideStream, pure, extra >>

NextMapped ==
  \/ StreamRow
  \/ FinishStream

\* The row loop under the mapping of every header row.
SpecMapped == InitMapped /\ [][NextMapped]_vars

(***************************************************************************)
(* The supplier dashboard: requests for a page and the load workers        *)
(***************************************************************************)

\* The rows of the suppliers table, and how many of them a search text
\* matches.  Page sizes are scaled to the table: PAGE_SIZES becomes {1, 2}.
DashRows == 2
PAGE_SIZES == {1, 2}
SearchTexts == {"", "acme"}
SortColumns == {"name", "id"}

MatchingRows(text) == IF text = "" THEN DashRows ELSE 1

\* max(1, (total_rows + page_size - 1) // page_size)
TotalPages(text, size) ==
  LET n == (MatchingRows(text) + size - 1) \div size
  IN IF n < 1 THEN 1 ELSE n

\* The arguments refresh_data_async hands to a worker (select_id left out: it
\* selects a row of the table and changes nothing else).
Params(p, size, by, dir, text) ==
  [page |-> p, page_size |-> size, sort_by |-> by, sort_dir |-> dir,
   search_text |-> text]

outsideDash == << worker, pure, threads, flushcall >>

\* refresh_data_async with the attributes as the handler has just set them: a
\* worker starts unless a load is in flight.
RefreshDataAsync(p, size, by, dir, text) ==
  /\ requested' = << Params(p, size, by, dir, text) >>
  /\ IF loading
       THEN UNCHANGED << loading, load_workers >>
       ELSE /\ loading' = TRUE
            /\ load_workers' = load_workers \cup {Params(p, size, by, dir, text)}

\* The window after __init__: the state attributes at their defaults and the
\* initial load started.
InitDash ==
  /\ WorkerInit /\ PureIdle /\ ThreadsIdle /\ FlushIdle
  /\ page = 1
  /\ page_size = 1
  /\ sort_by = "name"
  /\ sort_dir = "ASC"
  /\ search_text = ""
  /\ loading = TRUE
  /\ total_pages = 0
  /\ load_workers = {Params(1, 1, "name", "ASC", "")}
  /\ data_queue = <<>>
  /\ tree = <<>>
  /\ page_info = 0
  /\ requested = << Params(1, 1, "name", "ASC", "") >>
  /\ delivered = "none"

\* on_search, and on_clear_search with the empty text.
on_search(text) ==
  /\ search_text' = text
  /\ page' = 1
  /\ RefreshDataAsync(1, page_size, sort_by, sort_dir, text)
  /\ UNCHANGED << page_size, sort_by, sort_dir, total_pages, data_queue, tree,
                  page_info, delivered, outsideDash >>

on_sort(col) ==
  /\ IF sort_by = col
       THEN /\ sort_dir' = (IF sort_dir = "ASC" THEN "DESC" ELSE "ASC")
            /\ UNCHANGED sort_by
       ELSE /\ sort_by' = col
            /\ sort_dir' = "ASC"
  /\ page' = 1
  /\ RefreshDataAsync(1, page_size, sort_by', sort_dir', search_text)
  /\ UNCHANGED << page_size, search_text, total_pages, data_queue, tree,
                  page_info, delivered, outsideDash >>

on_change_page_size(size) ==
  /\ page_size' = size
  /\ page' = 1
  /\ RefreshDataAsync(1, size, sort_by, sort_dir, search_text)
  /\ UNCHANGED << sort_by, sort_dir, search_text, total_pages, data_queue,
                  tree, page_info, delivered, outsideDash >>

on_prev_page ==
  /\ page > 1
  /\ page' = page - 1
  /\ RefreshDataAsync(page - 1, page_size, sort_by, sort_dir, search_text)
  /\ UNCHANGED << page_size, sort_by, sort_dir, search_text, total_pages,
                  data_queue, tree, page_info, delivered, outsideDash >>

\* total_pages = 0 stands for the attribute not being set yet.
on_next_page ==
  /\ total_pages # 0
  /\ page < total_pages
  /\ page' = page + 1
  /\ RefreshDataAsync(page + 1, page_size, sort_by, sort_dir, search_text)
  /\ UNCHANGED << page_size, sort_by, sort_dir, search_text, total_pages,
                  data_queue, tree, page_info, delivered, outsideDash >>

\* on_dialog_saved after an edit of a supplier: the current page again.
on_dialog_saved ==
  /\ RefreshDataAsync(page, page_size, sort_by, sort_dir, search_text)
  /\ UNCHANGED << page, page_size, sort_by, sort_dir, search_text,
                  total_pages, data_queue, tree, page_info, delivered,
                  outsideDash >>

\* _load_data_worker: the page of its arguments, or the error of the store,
\* put on the queue.
LoadDataWorker(w, raises) ==
  /\ w \in load_workers
  /\ load_workers' = load_workers \ {w}
  /\ data_queue' = Append(data_queue,
       IF raises
         THEN [error |-> TRUE, data |-> w, total_pages |-> 0, page |-> 0]
         ELSE [error |-> FALSE, data |-> w,
               total_pages |-> TotalPages(w.search_text, w.page_size),
               page |-> w.page])
  /\ UNCHANGED << page, page_size, sort_by, sort_dir, search_text, loading,
                  total_pages, tree, page_info, requested, delivered,
                  outsideDash >>

\* _poll_queues with an item on the data queue (with none it changes nothing).
PollQueues ==
  /\ data_queue # <<>>
  /\ LET item == Head(data_queue)
     IN /\ data_queue' = Tail(data_queue)
        /\ loading' = FALSE
        /\ IF item.error
             THEN /\ delivered' = "error"
                  /\ UNCHANGED << tree, total_pages, page, page_info >>
             ELSE /\ delivered' = "data"
                  /\ tree' = << item.data >>
                  /\ total_pages' = item.total_pages
                  /\ page' = item.page
                  /\ page_info' = item.page
  /\ UNCHANGED << page_size, sort_by, sort_dir, search_text, load_workers,
                  requested, outsideDash >>

NextDash ==
  \/ \E text \in SearchTexts : on_search(text)
  \/ \E col \in SortColumns : on_sort(col)
  \/ \E size \in PAGE_SIZES : on_change_page_size(size)
  \/ on_prev_page
  \/ on_next_page
  \/ on_dialog_saved
  \/ \E w \in load_workers, raises \in BOOLEAN : LoadDataWorker(w, raises)
  \/ PollQueues

\* The dashboard window from its construction on.
SpecDash == InitDash /\ [][NextDash]_vars

(***************************************************************************)
(* Vocabulary of the properties                                            *)
(***************************************************************************)

\* The worker has ended and the UI thread has run all its callbacks.
RunOver == pc \in {"Done", "Failed"} /\ posted = <<>>

RECURSIVE SortedSeq(_)
\* The elements of a finite set of integers in increasing order.
SortedSeq(S) ==
  IF S = {} THEN <<>>
  ELSE LET m == CHOOSE x \in S : \A y \in S : x <= y
       IN <<m>> \o SortedSeq(S \ {m})

\* The cell of column col of a row after cleaning; missing cells are empty.
Cleaned(row, col) == IF col <= Len(row) THEN SanitizeCell(row[col]) ELSE <<>>

\* The row on line l (the header is line 1) and what the sanitizer makes of it.
RowOnLine(l) == file[l - 1]
KeepsLine(l) == Cleaned(RowOnLine(l), 1) # <<>> /\ Cleaned(RowOnLine(l), 2) # <<>>
TupleOnLine(l) == [sku |-> Cleaned(RowOnLine(l), 1), name |-> Cleaned(RowOnLine(l), 2)]

DataLines == 2..(Len(file) + 1)
AcceptedLines == {l \in DataLines : KeepsLine(l)}

\* The tuples of a set of lines, in file order.
TuplesOfLines(S) ==
  LET idx == SortedSeq(S) IN [k \in 1..Len(idx) |-> TupleOnLine(idx[k])]

Mentions(recs, sku) == \E i \in 1..Len(recs) : recs[i].sku = sku

LastOf(recs, sku) ==
  recs[CHOOSE i \in 1..Len(recs) :
         /\ recs[i].sku = sku
         /\ \A j \in (i + 1)..Len(recs) : recs[j].sku # sku]

\* The table t0 after the tuples recs under last-write-wins on sku: stored
\* records keep their place and take the last tuple of their sku; the skus new
\* to the table follow in the order of their first tuple.
Expected(t0, recs) ==
  LET new == {i \in 1..Len(recs) :
                /\ ~Mentions(t0, recs[i].sku)
                /\ \A j \in 1..(i - 1) : recs[j].sku # recs[i].sku}
      idx == SortedSeq(new)
  IN [i \in 1..Len(t0) |->
        IF Mentions(recs, t0[i].sku) THEN LastOf(recs, t0[i].sku) ELSE t0[i]]
     \o [k \in 1..Len(idx) |-> LastOf(recs, recs[idx[k]].sku)]

NoDuplicateSku(t) == \A i, j \in 1..Len(t) : t[i].sku = t[j].sku => i = j

\* The lines whose tuples are in the committed table: those written, if the
\* run's transaction was committed.
WrittenLines == DOMAIN writtenVia
CommittedLines == IF commits > 0 THEN WrittenLines ELSE {}

DiagnosticsFor(l) == {i \in 1..Len(error_lines) : error_lines[i].line = l}
ShownErrorDialog == \E i \in 1..Len(uiLog) : uiLog[i] = "error_dialog"

(***************************************************************************)
(* Properties                                                              *)
(***************************************************************************)

\* C1: when an exception has left flush_batch (at a mid-stream or at the final
\* flush) or the commit has raised, the run does not commit; it ends rolled
\* back, the committed table being the one from before the run; and the user
\* has been shown the error dialog.
C1_StoreFailureIsFatal ==
  /\ escaped => commits = 0
  /\ (pc \in {"Done", "Failed"} /\ escaped) => (failed /\ db = dbAtStart)
  /\ (RunOver /\ escaped) => ShownErrorDialog

\* C2: in Done the committed table is the table from before the run with every
\* accepted row applied, last row of a sku winning, whatever was rejected;
\* and while rows are being processed nothing written is rolled back: every
\* written tuple's sku is in the transaction with a written tuple's values,
\* and whenever no batch is pending the transaction is the pre-run table with
\* all tuples written so far applied.
C2_DoneReflectsAcceptedRows ==
  /\ pc = "Done" => db = Expected(dbAtStart, TuplesOfLines(AcceptedLines))
  /\ pc \in {"Streaming", "RowExcept", "Flush", "Commit"} =>
       /\ \A l \in WrittenLines :
            \E i \in 1..Len(work) :
              /\ work[i].sku = TupleOnLine(l).sku
              /\ \E m \in WrittenLines : work[i] = TupleOnLine(m)
       /\ batch = <<>> => work = Expected(dbAtStart, TuplesOfLines(WrittenLines))

\* A run that ended in Done although it rejected a row and caught a row-level
\* exception, and that changed the table.
C2_Witness ==
  /\ pc = "Done"
  /\ excLines # {}
  /\ \E i \in 1..Len(error_lines) : error_lines[i].kind = "missing"
  /\ db # dbAtStart

\* C3: after a run, every batch that was handed to the store is in the
\* committed table with all its tuples or with none, and the committed table
\* is the one from before the run with exactly the committed tuples applied.
C3_BatchAllOrNothing ==
  RunOver =>
    /\ \A B \in flushed : B \subseteq CommittedLines \/ B \cap CommittedLines = {}
    /\ db = Expected(dbAtStart, TuplesOfLines(CommittedLines))

\* A committed run one of whose batches had been applied in part by a flush
\* that raised.
C3_Witness ==
  /\ RunOver
  /\ pc = "Done"
  /\ escaped
  /\ \E B \in flushed : Cardinality(B) >= 2
  /\ db # dbAtStart

\* C4: a second import of the file of the previous, successful run leaves the
\* committed table as the first left it: one record per sku of the file, with
\* the name of the file's last row of that sku.
C4_ReimportIsIdempotent ==
  (pc = "Done" /\ rerun) =>
     /\ db = dbAtStart
     /\ NoDuplicateSku(db)
     /\ \A l \in AcceptedLines :
          \E i \in 1..Len(db) :
            db[i] = LastOf(TuplesOfLines(AcceptedLines), TupleOnLine(l).sku)

\* A completed re-import, through the per-record fallback, of a file that
\* names a sku twice.
C4_Witness ==
  /\ pc = "Done"
  /\ rerun
  /\ ~have_upsert
  /\ \E l, m \in AcceptedLines :
       l # m /\ TupleOnLine(l).sku = TupleOnLine(m).sku /\ TupleOnLine(l) # TupleOnLine(m)

\* C5: the committed table never holds two records with the same sku.
C5_OneRecordPerSku == NoDuplicateSku(db)

\* A table that holds two skus differing in case only, after a run that fell
\* back to the per-record statements and wrote a sku twice.
C5_Witness ==
  /\ pc = "Done"
  /\ Len(db) = 2
  /\ ~have_upsert
  /\ Cardinality(WrittenLines) >= 3

\* C6: once the atomic upsert has been rejected, have_upsert stays false for
\* the rest of the run, no later flush attempts the atomic form, and every
\* tuple of the rejected batch that has left the batch was written by the
\* per-record statements.
C6_FallbackIsSticky ==
  /\ ~atomicAfterReject
  /\ rejectedLines # {} => ~have_upsert
  /\ \A l \in rejectedLines :
       l \notin BatchLineSet => (l \in WrittenLines /\ writtenVia[l] = "perrec")

\* A completed run whose first batch was rejected and that flushed again later.
C6_Witness ==
  /\ pc = "Done"
  /\ rejectedLines # {}
  /\ Cardinality(flushed) >= 2
  /\ \E l \in WrittenLines : l \notin rejectedLines

C8_RejectedRowDiagnosed ==
  /\ \A l \in 2..line_no :
       (l \in DataLines /\ ~KeepsLine(l)) =>
          /\ Cardinality(DiagnosticsFor(l)) = 1
          /\ \A i \in DiagnosticsFor(l) : error_lines[i].kind = "missing"
          /\ l \notin WrittenLines
          /\ l \notin BatchLineSet
          /\ \A B \in flushed : l \notin B
  /\ \A l \in 2..line_no :
       (l \in DataLines /\ KeepsLine(l) /\ pc # "Flush") =>
          (l \in WrittenLines \/ l \in BatchLineSet)
  /\ (rerun /\ pc \in {"Commit", "Finally", "Done", "Failed"} /\ begins = 1) =>
       line_no - 1 = Len(file)

\* A completed run whose first data row was rejected and whose last row was
\* written.
C8_Witness ==
  /\ pc = "Done"
  /\ Len(file) >= 2
  /\ ~KeepsLine(2)
  /\ (Len(file) + 1) \in WrittenLines

\* C9: at the end of a committed run every data row is either written or
\* counted as skipped, never both: rows seen = rows committed + rows skipped,
\* and there are as many diagnostics as skipped rows.
C9_RowsAccountedOnce ==
  pc = "Done" =>
    /\ line_no - 1 = Cardinality(CommittedLines) + skipped
    /\ Len(error_lines) = skipped
    /\ \A l \in DataLines : ~(l \in CommittedLines /\ DiagnosticsFor(l) # {})

\* C10: the step taken from the per-row except clause counts one more skipped
\* row, records a diagnostic with the line number of the row being processed,
\* and goes on with the loop: nothing is rolled back, the run has not failed.
C10_RowExceptionCaughtAtRow ==
  [][(pc = "RowExcept" /\ pc' # pc) =>
       /\ pc' = "Streaming"
       /\ skipped' = skipped + 1
       /\ error_lines' = Append(error_lines, [line |-> line_no, kind |-> "exception"])
       /\ work' = work
       /\ db' = db
       /\ batch' = batch
       /\ ~failed']_vars

\* A run that caught an exception at a row and went on to commit.
C10_Witness ==
  /\ pc = "Done"
  /\ \E i \in 1..Len(error_lines) :
       error_lines[i].kind = "exception" /\ error_lines[i].line \in excLines
  /\ line_no > 2

\* The phases of a run, in the order the worker goes through them.
PhaseOrder == <<"Opening", "Sniffing", "Mapping", "Streaming", "Committing">>

IsPrefix(a, b) == Len(a) <= Len(b) /\ a = SubSeq(b, 1, Len(a))

Entered(ph) == \E i \in 1..Len(phases) : phases[i] = ph

\* The UI thread has run _load_data for this run.
Reloaded == \E i \in 1..Len(uiLog) : uiLog[i] = "load_data"

\* C11: a run whose file could not be opened has ended in Failed with the
\* error dialog shown; it never sniffed the delimiter, opened no transaction
\* and left the committed table as it was.
C11_OpenFailureFailsReported ==
  failure = "no_file" =>
    /\ ~Entered("Sniffing")
    /\ begins = 0
    /\ db = dbAtStart
    /\ pc \in {"Opening", "Return", "Failed"}
    /\ RunOver => (pc = "Failed" /\ ShownErrorDialog)

\* C12: a run whose file has no header row has ended in Failed with the error
\* dialog shown; no data row was read, nothing was handed to the store and the
\* committed table is as it was.
C12_MissingHeaderFailsReported ==
  failure = "no_header" =>
    /\ line_no = 1
    /\ file = <<>>
    /\ flushed = {}
    /\ WrittenLines = {}
    /\ db = dbAtStart
    /\ pc \in {"Except", "Finally", "Failed"}
    /\ RunOver => (pc = "Failed" /\ ShownErrorDialog)

\* C13: the phases a run has entered are an initial part of Opening,
\* Sniffing, Mapping, Streaming, Committing; a run that has ended is in Done
\* with all five entered or in Failed; and a run stopped by the store
\* connection or by BEGIN has ended in Failed with the error dialog shown.
C13_PhasesInOrderFailuresReported ==
  /\ IsPrefix(phases, PhaseOrder)
  /\ pc = "Done" => phases = PhaseOrder
  /\ (RunOver /\ failure \in {"no_connection", "begin"}) =>
       (pc = "Failed" /\ ShownErrorDialog)

\* C14: the step import_csv takes when the dialog answers the empty string
\* is the early return: the worker does not start, no transaction is opened,
\* nothing is handed to the UI thread, the tables are unchanged.
C14_EmptyPathReturnsEarly ==
  [][path' = "" =>
       UNCHANGED << pc, db, work, posted, uiLog, all_data, begins, commits,
                    phases, failure, file >>]_vars

\* An early return after an import that had filled the table.
C14_Witness ==
  /\ path = ""
  /\ pc = "Done"
  /\ db # <<>>

\* C20: when a run has ended, in Done or in Failed, and the UI thread has run
\* its callbacks, _load_data has been run and the cached rows are the
\* committed table.
C20_ReloadAfterEveryRun ==
  (RunOver /\ phases # <<>>) => (Reloaded /\ all_data = db)

\* The normalized form of the header cell of column i, before deduplication.
NormalizedCell(i) == NormalizeHeader(raw_headers[i])

\* Column i is the first with its normalized form.
FirstOccurrence(i) == \A j \in 1..(i - 1) : NormalizedCell(j) # NormalizedCell(i)

\* C15: the deduplicated headers are as many as the cells of the header row,
\* no two of them are equal, and every first occurrence of a normalized form
\* has kept that form, in its column.
C15_DedupedHeadersUnique ==
  hstep \in {"deduped", "mapped"} =>
    /\ Len(headers_norm) = Len(raw_headers)
    /\ \A i, j \in 1..Len(headers_norm) : headers_norm[i] = headers_norm[j] => i = j
    /\ \A i \in 1..Len(headers_norm) : FirstOccurrence(i) => headers_norm[i] = NormalizedCell(i)

\* The columns whose header cell normalizes to a synonym of the target.
SynonymColumns(t) == {i \in 1..Len(raw_headers) : NormalizedCell(i) \in Synonyms[t]}

\* C16: the mapping has an entry for exactly the fields with a column whose
\* header normalizes to a synonym of the field, and the entry is the index
\* (zero-based) of the leftmost such column.
C16_LeftmostSynonymColumn ==
  hstep = "mapped" =>
    /\ DOMAIN target_map \subseteq Targets
    /\ \A t \in Targets :
         IF SynonymColumns(t) = {}
         THEN t \notin DOMAIN target_map
         ELSE /\ t \in DOMAIN target_map
              /\ (target_map[t] + 1) \in SynonymColumns(t)
              /\ \A i \in SynonymColumns(t) : target_map[t] + 1 <= i

\* A header whose second and third column are both stock columns, under
\* different synonyms, and whose name column occurs twice.
C16_Witness ==
  /\ hstep = "mapped"
  /\ Len(raw_headers) = 3
  /\ "stock" \in DOMAIN target_map
  /\ target_map["stock"] = 1
  /\ NormalizedCell(2) # NormalizedCell(3)
  /\ NormalizedCell(3) \in Synonyms["stock"]

\* C18: for a file that can be read, the detector answers utf-8-sig, utf-16le
\* or utf-16be with the mark flag set exactly when the file begins with that
\* encoding's byte-order mark (EF BB BF, FF FE, FE FF), and answers with the
\* flag clear for every other file.
C18_ByteOrderMarkDetected ==
  (estep = "detected" /\ readable) =>
    /\ ~detected.raised
    /\ StartsWith(content, <<"EF", "BB", "BF">>) =>
         (detected.enc = "utf-8-sig" /\ detected.bom)
    /\ StartsWith(content, <<"FF", "FE">>) =>
         (detected.enc = "utf-16le" /\ detected.bom)
    /\ StartsWith(content, <<"FE", "FF">>) =>
         (detected.enc = "utf-16be" /\ detected.bom)
    /\ ( /\ ~StartsWith(content, <<"EF", "BB", "BF">>)
         /\ ~StartsWith(content, <<"FF", "FE">>)
         /\ ~StartsWith(content, <<"FE", "FF">>) ) => ~detected.bom

\* A file that begins with the UTF-16LE mark followed by two NUL bytes (the
\* UTF-32LE mark), detected as UTF-16LE.
C18_Witness ==
  /\ estep = "detected"
  /\ readable
  /\ content = <<"FF", "FE", "00", "00">>
  /\ detected = [raised |-> FALSE, enc |-> "utf-16le", bom |-> TRUE]

\* C19: for every path the detector answers, without raising, an encoding
\* under which the sampled bytes decode.
C19_DetectorNeverRaises ==
  estep = "detected" =>
    /\ ~detected.raised
    /\ Decodes(detected.enc, ReadBytes(content, 65536))

\* The cell as the coercions receive it.
CleanCell == SanitizeCell(cell)

HasDigit(s) == \E i \in 1..Len(s) : s[i] \in Digits

\* A text no reading makes a number of: no digit in it, and not nan.
Unparseable(s) ==
  /\ ~HasDigit(s)
  /\ LowerText(Without(Without(Without(s, "$"), ","), "-")) # <<"n", "a", "n">>

\* A price written with currency signs and thousands separators: digits,
\* `$` and `,` only, at least one digit.
CurrencyAmount(s) ==
  /\ HasDigit(s)
  /\ \A i \in 1..Len(s) : s[i] \in Digits \cup {"$", ","}

\* C17: the row is batched and stored whatever the cell holds: no coercion
\* raises, the row is neither skipped nor the import rolled back because of
\* the cell; a blank, sentinel or unparseable cell gives price 0 and stock 0;
\* a price with currency signs and thousands separators gives the number its
\* digits spell.
C17_NumericCellsNeverReject ==
  cstep # "row" =>
    /\ ~IsException(price) /\ ~IsException(stock)
    /\ cstep \in {"batched", "committed"}
    /\ (CleanCell = <<>> \/ LowerText(CleanCell) \in Sentinels \/ Unparseable(CleanCell)) =>
         (price = Zero /\ stock = Zero)
    /\ CurrencyAmount(CleanCell) =>
         price = Number("num", FALSE, DigitsValue(Without(Without(CleanCell, "$"), ",")), 0)

\* How many columns left of column i have the normalized form of column i.
EarlierOccurrences(i) ==
  Cardinality({j \in 1..(i - 1) : NormalizedCell(j) = NormalizedCell(i)})

\* C21 as the claim states it: after deduplication the first occurrence of a
\* normalized form keeps it, and its second, third, ... occurrence, from left
\* to right, is the form followed by 2, 3, ...
C21_SuffixesFromTwo ==
  hstep \in {"deduped", "mapped"} =>
    \A i \in 1..Len(raw_headers) :
      headers_norm[i] =
        IF EarlierOccurrences(i) = 0 THEN NormalizedCell(i)
        ELSE NormalizedCell(i) \o ToString(EarlierOccurrences(i) + 1)

\* C21 amended: after deduplication the first occurrence of a normalized form
\* keeps it, and its second, third, ... occurrence, from left to right, is the
\* form followed by 1, 2, ...
C21_SuffixesFromOne ==
  hstep \in {"deduped", "mapped"} =>
    /\ Len(headers_norm) = Len(raw_headers)
    /\ \A i \in 1..Len(raw_headers) :
         headers_norm[i] =
           IF EarlierOccurrences(i) = 0 THEN NormalizedCell(i)
           ELSE NormalizedCell(i) \o ToString(EarlierOccurrences(i))

\* A deduplicated header row of three cells with one normalized form, written
\* in two ways.
C21_Witness ==
  /\ hstep = "deduped"
  /\ Len(raw_headers) = 3
  /\ raw_headers[1] # raw_headers[2]
  /\ \A i \in 1..3 : NormalizedCell(i) = "name"
  /\ headers_norm[3] = "name2"

\* C22: no column is the column of two fields: the mapping built from a header
\* row is injective, and no header text is a synonym of two fields.
C22_MappingInjective ==
  hstep = "mapped" =>
    /\ \A t1, t2 \in DOMAIN target_map :
         target_map[t1] = target_map[t2] => t1 = t2
    /\ \A t1, t2 \in Targets :
         t1 # t2 => Synonyms[t1] \cap Synonyms[t2] = {}

\* A mapped header row of three columns that are the columns of three fields.
C22_Witness ==
  /\ hstep = "mapped"
  /\ Len(raw_headers) = 3
  /\ Cardinality(DOMAIN target_map) = 3
  /\ Cardinality({target_map[t] : t \in DOMAIN target_map}) = 3

\* C23: the batch never holds more than BATCH_SIZE tuples; whenever the worker
\* is between two rows the batch is below the limit (a batch that reached it
\* was flushed and is empty); and when the worker is at the commit, after the
\* flush at the end of the rows, the batch is empty.
C23_BatchWithinLimit ==
  /\ Len(batch) <= BATCH_SIZE
  /\ pc = "Streaming" => Len(batch) < BATCH_SIZE
  /\ pc = "Commit" => batch = <<>>

\* The first written line that carries the sku.
FirstLineOf(sku) ==
  CHOOSE l \in WrittenLines :
    /\ TupleOnLine(l).sku = sku
    /\ \A k \in WrittenLines : TupleOnLine(k).sku = sku => l <= k

\* The positions of the table, inside the transaction, that this run appended.
AppendedPositions == (Len(dbAtStart) + 1)..Len(work)

\* C24: rows are taken in file order (the tuples of the batch are those of
\* their lines, with increasing line numbers up to the line just read); the
\* diagnostics have strictly increasing line numbers; the records the run
\* has added to the table stand in the order of the lines that first carried
\* their sku, and every line of the batch that is not written yet comes after
\* every written line; once the run has committed, nothing is left to flush.
C24_FileOrderKept ==
  /\ line_no - 1 <= Len(file)
  /\ Len(batch) = Len(batchLines)
  /\ \A i \in 1..Len(batchLines) :
       /\ batchLines[i] \in 2..line_no
       /\ batch[i] = TupleOnLine(batchLines[i])
       /\ \A j \in 1..Len(batchLines) : i < j => batchLines[i] < batchLines[j]
  /\ \A i, j \in 1..Len(error_lines) :
       /\ error_lines[i].line \in 2..line_no
       /\ i < j => error_lines[i].line < error_lines[j].line
  /\ \A i \in AppendedPositions :
       /\ \E l \in WrittenLines : TupleOnLine(l).sku = work[i].sku
       /\ \A j \in AppendedPositions :
            i < j => FirstLineOf(work[i].sku) < FirstLineOf(work[j].sku)
  /\ \A l \in WrittenLines :
       \A k \in BatchLineSet : k \notin WrittenLines => l < k
  /\ commits = 1 =>
       /\ batch = <<>>
       /\ pc \in {"Finally", "Done"}
       /\ \A B \in flushed : B \subseteq WrittenLines

\* A committed run with two diagnostics that added two records.
C24_Witness ==
  /\ pc = "Done"
  /\ Len(error_lines) >= 2
  /\ Cardinality(AppendedPositions) >= 2
  /\ Cardinality(flushed) >= 1

\* C25: at most one worker thread of the import is in flight.
C25_OneImportInFlight == Cardinality(InFlight) <= 1

\* C26: a call of flush_batch tries the atomic form at most once and the
\* per-record form at most once.
C26_FlushTriesEachFormOnce ==
  /\ tries.atomic <= 1
  /\ tries.perrec <= 1

\* C27 as the claim states it: the table after the atomic form and the table
\* after the per-record form, from the same table and batch, are the same
\* table, ids included.
C27_SameStoreContents ==
  ExecuteManyStored(storedBefore, flushing).rows
    = PerRecordLoopStored(storedBefore, flushing).rows

\* C27 amended: from the same table and batch the two forms leave the same
\* records in the same order and change no id of a record stored before; a
\* call that has returned has left those records, whichever forms it tried
\* and however often.
C27_SameRecords ==
  LET atomic == ExecuteManyStored(storedBefore, flushing)
      perrec == PerRecordLoopStored(storedBefore, flushing)
  IN /\ RecordsOf(atomic) = RecordsOf(perrec)
     /\ \A i \in 1..Len(storedBefore.rows) :
          /\ atomic.rows[i].id = storedBefore.rows[i].id
          /\ perrec.rows[i].id = storedBefore.rows[i].id
     /\ (pc = "Returned" /\ flushing # <<>>) => RecordsOf(stored) = RecordsOf(atomic)

\* A call that returned after it fell back to the per-record form, on a batch
\* that repeats a sku stored before and adds a new one.
C27_Witness ==
  /\ pc = "Returned"
  /\ tries.atomic = 1
  /\ tries.perrec >= 1
  /\ Len(flushing) = 2
  /\ HasSku(storedBefore.rows, flushing[1].sku)
  /\ ~HasSku(storedBefore.rows, flushing[2].sku)
  /\ ExecuteManyStored(storedBefore, flushing).rows # stored.rows

\* The "Import complete" status has been handed to the UI thread, or shown.
CompleteReported ==
  \/ \E i \in 1..Len(posted) : posted[i] = "import_complete"
  \/ \E i \in 1..Len(uiLog) : uiLog[i] = "import_complete"

\* C28: "Import complete" is reported only by a run that has committed and
\* has not been rolled back.
C28_CompleteOnlyAfterCommit ==
  CompleteReported => (commits = 1 /\ ~failed)

\* No column of the header row normalizes to a synonym of sku, or none to a
\* synonym of name.
KeyUnmapped == SynonymColumns("sku") = {} \/ SynonymColumns("name") = {}

\* C29: under a header without a sku column or without a name column every
\* row read so far is counted as skipped and has the missing-key diagnostic
\* of its line, nothing is in the batch or in the table, and the run that has
\* ended has committed once and has handed the UI thread the reload and
\* "Import complete" only, no error dialog.
C29_UnmappedKeySkipsEveryRow ==
  (hstep = "mapped" /\ KeyUnmapped) =>
    /\ skipped = line_no - 1
    /\ Len(error_lines) = line_no - 1
    /\ \A i \in 1..Len(error_lines) :
         error_lines[i] = [line |-> i + 1, kind |-> "missing"]
    /\ batch = <<>>
    /\ work = <<>>
    /\ db = <<>>
    /\ pc = "Done" =>
         /\ commits = 1
         /\ ~failed
         /\ posted = <<"load_data", "import_complete">>

\* A run that has ended on a file of two rows with a cell in every column,
\* under a header with a name column and no sku column.
C29_Witness ==
  /\ hstep = "mapped"
  /\ pc = "Done"
  /\ SynonymColumns("sku") = {}
  /\ "name" \in DOMAIN target_map
  /\ Len(file) = 2
  /\ \A i \in 1..2 : \A k \in 1..Len(file[i]) : SanitizeCell(file[i][k]) # <<>>
  /\ Len(file[1]) >= Len(raw_headers)
  /\ skipped = 2

\* The load workers have all ended and the UI thread has taken every item off
\* the data queue.
AllDelivered == load_workers = {} /\ data_queue = <<>>

\* C30: once every load worker has delivered its result through the data
\* queue and the last result was shown, the table shows the result for the
\* parameters of the most recent refresh request and the page counter shows
\* that request's page.
C30_LatestRequestShown ==
  (AllDelivered /\ delivered = "data") =>
    (tree = requested /\ page_info = requested[1].page)

====
